---------------------------- MODULE Spec2Model ----------------------------
(***************************************************************************)
(* A model of the flomon_service acquisition core: the warehousing of     *)
(* gauge readings (daemon.rs, bin/historical_ingest.rs), the resumable    *)
(* multi-year daily-value load, the poll cycle of the daemon with its     *)
(* monitoring state, and the backfill strategy of one station.            *)
(*                                                                         *)
(* Each subsystem has its own specification (SpecStore, SpecIngest,        *)
(* SpecPoll, SpecBackfill); the variables of the other subsystems stay at  *)
(* their initial values there.                                             *)
(***************************************************************************)
EXTENDS Integers, Sequences, FiniteSets, TLC

(***************************************************************************)
(* Shared values                                                           *)
(***************************************************************************)

\* Option::None / SQL NULL for a time, a count or a year (all of them >= 0).
NULL == -1

PARAM_DISCHARGE == "00060"
PARAM_STAGE == "00065"

\* A textual timestamp as the upstream sends it: RFC 3339 with an offset
\* (local time `local`, offset `off`, the instant is local - off), a naive
\* "%Y-%m-%dT%H:%M:%S%.3f" text, or a text neither parser accepts.
Rfc(local, off) == [fmt |-> "rfc3339", local |-> local, off |-> off]
Naive(local) == [fmt |-> "naive", local |-> local, off |-> 0]
BadText == [fmt |-> "bad", local |-> 0, off |-> 0]

\* chrono::DateTime::parse_from_rfc3339(..).with_timezone(&Utc): NULL on Err.
parse_from_rfc3339(dt) ==
    IF dt.fmt = "rfc3339" THEN dt.local - dt.off ELSE NULL

\* The reading_time of warehouse_readings: RFC 3339 first, then the naive
\* formats read as UTC, else the "Failed to parse datetime" error (NULL).
ParseReadingTime(dt) ==
    IF parse_from_rfc3339(dt) # NULL THEN parse_from_rfc3339(dt)
    ELSE IF dt.fmt = "naive" THEN dt.local
    ELSE NULL

\* The text of reading.datetime bound to the reading_time column by
\* store_readings: the store casts it to an instant, or rejects the text.
TextToTimestamp(dt) ==
    IF dt.fmt = "rfc3339" THEN dt.local - dt.off
    ELSE IF dt.fmt = "naive" THEN dt.local
    ELSE NULL

\* The conflict target of both INSERT statements.
KeyOf(row) == <<row.site_code, row.parameter_code, row.reading_time>>

Keys(table) == {KeyOf(row) : row \in table}

\* The INSERT without its ON CONFLICT .. DO NOTHING clause and without the
\* unique index behind it: every row is added.
InsertReadingNoConflictCheck(table, row) ==
    [table |-> table \cup {row}, rows_affected |-> 1]

\* INSERT INTO usgs_raw.gauge_readings .. ON CONFLICT (site_code,
\* parameter_code, reading_time) DO NOTHING: the table after it and the
\* rows_affected it returns.
InsertReading(table, row) ==
    IF KeyOf(row) \in Keys(table)
    THEN [table |-> table, rows_affected |-> 0]
    ELSE [table |-> table \cup {row}, rows_affected |-> 1]


(***************************************************************************)
(* State                                                                   *)
(***************************************************************************)
VARIABLES
    gauge_readings,   \* usgs_raw.gauge_readings: a set of rows
    now,              \* Utc::now(), in hours since 1939-01-01T00:00Z
    ticks,            \* how often the clock has advanced
    call,             \* the last store call: which one, the keys of its batch
    ret,              \* what the last store call returned
    before,           \* usgs_raw.gauge_readings as the last store call found it
    state_file,       \* historical_ingest_state.json
    state,            \* the IngestState of the running historical_ingest
    ipc,              \* where historical_ingest's main is ("stopped": not running)
    loc,              \* the locals of ingest_historical_dv
    fetched,          \* the readings the last fetch returned
    dv_requests,      \* the daily-value windows requested so far
    iv_requests,      \* the instantaneous-value periods requested so far
    runs,             \* how often historical_ingest was started
    exit_status,      \* how the last run of historical_ingest ended
    monitoring_state, \* usgs_raw.monitoring_state, by site_code
    cwms_timeseries,  \* usace.cwms_timeseries: the keys of its rows
    asos_observations, \* asos_observations: the keys of its rows
    cycle,            \* where poll_all_stations is, and what happened in it
    attempted,        \* the entities polled in the current cycle
    results,          \* the keys of poll_all_stations' results map
    last_poll,        \* the last entity polled and how that went
    config,           \* Daemon::config
    bf_call,          \* the last call of backfill_station and its requests
    observations,     \* the observations of the flood event under analysis
    precursor_window, \* what detect_precursor_window returned for them
    cache,            \* MonitoringCache::cache, by (site_code, parameter_code)
    stale_check,      \* the last call of MonitoringCache::is_stale
    state_rows,       \* usgs_raw.monitoring_state as the cache reads it, by key
    cache_log,        \* the last poll or refresh the cache could have seen
    response,         \* the body of a USGS response, as its JSON reads
    parsed,           \* the last call of parse_iv_response / parse_dv_response
    river_stages,           \* the latest stages of the two rivers, in tenths of a foot
    backwater,        \* the last backwater classification of these stages
    peak_record,      \* a peak stage and the flood thresholds of its station, in tenths of a foot
    flood_severity,   \* the last result of FloodSeverity::from_stage
    flood_analysis_events,\* flood_analysis.events: a set of derived event rows
    reanalysis,       \* the last run of analyze_flood_events
    poll_tasks,       \* the polls of two stations running side by side
    parallel,         \* the store and the state they started from, and how they ran
    daemon_run,       \* Daemon::run: where the loop is and what its last cycle did
    stations_toml,    \* stations.toml as load_config finds it
    station_configs,  \* what load_config returned
    nws_flood_events, \* nws.flood_events: its rows
    peak_ingest,      \* the runs of ingest_peak_flows so far
    cwms_backfill     \* the last call of backfill_cwms_location

dbVars == <<gauge_readings>>
clockVars == <<now, ticks>>
storeVars == <<call, ret, before>>
ingestVars == <<state_file, state, ipc, loc, fetched, dv_requests, iv_requests,
                runs, exit_status>>
pollVars == <<monitoring_state, cwms_timeseries, asos_observations, cycle,
              attempted, results, last_poll>>
backfillVars == <<config, bf_call>>
analysisVars == <<observations, precursor_window>>
cacheVars == <<cache, stale_check, state_rows, cache_log>>
parseVars == <<response, parsed>>
backwaterVars == <<river_stages, backwater>>
severityVars == <<peak_record, flood_severity>>
reanalysisVars == <<flood_analysis_events, reanalysis>>
daemonVars == <<poll_tasks, parallel, daemon_run>>
toolVars == <<stations_toml, station_configs, nws_flood_events, peak_ingest, cwms_backfill>>
vars == <<dbVars, clockVars, storeVars, ingestVars, pollVars, backfillVars, analysisVars, cacheVars, parseVars, backwaterVars, severityVars, reanalysisVars, daemonVars, toolVars>>

(***************************************************************************)
(* The clock                                                               *)
(***************************************************************************)

\* chrono::Duration::days(1), in hours.
HoursPerDay == 24

\* The days of a calendar year (leap days left out).
DaysPerYear == 365

Days(n) == n * HoursPerDay

\* How often the clock advances in one behaviour.
MaxTicks == 2

\* The steps the clock may take between two reads of Utc::now().
TickHours == {1, 36, Days(200)}

\* 1940-08-12T00:00Z: the cutoff (now - 125 days) is the 100th day of 1940.
InitNow == Days(DaysPerYear + 125 + 100)

InitClock ==
    /\ now = InitNow
    /\ ticks = 0

(***************************************************************************)
(* historical_ingest: the state file and the defaults of its variables     *)
(***************************************************************************)

\* IngestState::default()
DefaultState ==
    [dv_initialized |-> FALSE, iv_initialized |-> FALSE, last_update |-> NULL,
     dv_last_year_completed |-> NULL]

\* No historical_ingest_state.json on disk.
NoFile == [exists |-> FALSE, st |-> DefaultState]

NoLocals == [year |-> NULL, start_year |-> NULL, end_year |-> NULL, cutoff |-> NULL]

InitIngestVars ==
    /\ state_file = NoFile
    /\ state = DefaultState
    /\ ipc = "stopped"
    /\ loc = NoLocals
    /\ fetched = <<>>
    /\ dv_requests = {}
    /\ iv_requests = {}
    /\ runs = 0
    /\ exit_status = "none"

(***************************************************************************)
(* The daemon: its registries and the defaults of its variables            *)
(***************************************************************************)

SiteKingston == "05568500"
SitePeoria == "05567500"

\* Daemon::stations, Daemon::cwms_locations (with the timeseries discovered
\* for each) and Daemon::asos_locations, as Daemon::initialize loaded them.
stations == <<SiteKingston>>
cwms_locations ==
    <<[name |-> "Peoria-Pool", discovered |-> <<"pool", "tailwater">>]>>
asos_locations == <<"KPIA", "KBMI">>

\* The keys poll_all_stations gives its results: "USGS:{site_code}",
\* "CWMS:{name}", "ASOS:{station_id}"; here the class and the id.
Entity(class, id) == [class |-> class, id |-> id]

\* The entities in the order poll_all_stations polls them.
Work ==
    [i \in 1..Len(stations) |-> Entity("USGS", stations[i])]
    \o [i \in 1..Len(cwms_locations) |-> Entity("CWMS", cwms_locations[i].name)]
    \o [i \in 1..Len(asos_locations) |-> Entity("ASOS", asos_locations[i])]

Entities == {Work[i] : i \in 1..Len(Work)}

EntityIds == {e.id : e \in Entities}

\* No row of usgs_raw.monitoring_state for a site_code.
NoRow ==
    [exists |-> FALSE, latest_reading_time |-> NULL, consecutive_failures |-> 0,
     last_poll_attempted |-> NULL]

NoPoll ==
    [entity |-> Entity("none", "none"), returned |-> "none", aborted_by |-> "none",
     failures_before |-> 0]

IdleCycle ==
    [i |-> 0, result |-> "none", poll_failed |-> FALSE, persist_failed |-> FALSE]

NoStages == [boundary |-> 0, monitored |-> 0]

NotClassified ==
    [called |-> FALSE, fn |-> "none", differential |-> 0, detected |-> FALSE,
     severity |-> "none"]

InitBackwaterVars ==
    /\ river_stages = NoStages
    /\ backwater = NotClassified

NoPeak == [peak_stage_ft |-> 0, flood |-> 0, moderate |-> 0, major |-> 0]

NotRated == [called |-> FALSE, severity |-> "none"]

InitSeverityVars ==
    /\ peak_record = NoPeak
    /\ flood_severity = NotRated

NoReanalysis ==
    [called |-> FALSE, site_filter |-> "none", reanalyze |-> FALSE, run |-> 0,
     before |-> {}]

InitReanalysisVars ==
    /\ flood_analysis_events = {}
    /\ reanalysis = NoReanalysis

NoTasks == [site_code \in {} |-> {}]

NoParallel == [table |-> {}, ms |-> [site_code \in {} |-> {}], interleaved |-> FALSE]

NotRunning ==
    [pc |-> "top", elapsed |-> NULL, sleep_seconds |-> NULL, slept |-> NULL,
     last_result |-> "none"]

InitDaemonVars ==
    /\ poll_tasks = NoTasks
    /\ parallel = NoParallel
    /\ daemon_run = NotRunning

NoToml == [readable |-> FALSE, syntax_ok |-> FALSE, station |-> <<>>]

NotLoaded == [called |-> FALSE, panicked |-> FALSE, station |-> <<>>]

NoPeakIngest ==
    [rdb |-> <<>>, runs |-> 0, site_code |-> "none", ok |-> TRUE, inserted |-> 0,
     events |-> <<>>, rows_before |-> {}, committed |-> {}, committed_before |-> {}]

NoCwmsBackfill ==
    [called |-> FALSE, ok |-> TRUE, location |-> "none", timeseries |-> <<>>,
     empty_before |-> FALSE, requests |-> <<>>, at |-> NULL]

InitToolVars ==
    /\ stations_toml = NoToml
    /\ station_configs = NotLoaded
    /\ nws_flood_events = {}
    /\ peak_ingest = NoPeakIngest
    /\ cwms_backfill = NoCwmsBackfill

\* No body was received: a body that is no JSON.
NoResponse == [syntax_ok |-> FALSE, has_time_series |-> FALSE, time_series |-> <<>>]

NotParsed == [called |-> FALSE, fn |-> "none", kind |-> "none", readings |-> <<>>]

InitParseVars ==
    /\ response = NoResponse
    /\ parsed = NotParsed

\* HashMap::new(): a function with no key.
EmptyCache == [key \in {} |-> {}]

\* get() found no entry.
NoEntry ==
    [present |-> FALSE, latest_reading_time |-> NULL,
     staleness_threshold_minutes |-> 0, status |-> "unknown"]

NoStaleCheck ==
    [called |-> FALSE, site_code |-> "none", parameter_code |-> "none", at |-> 0,
     cached |-> NoEntry, stale |-> TRUE, after_poll |-> FALSE, polled_time |-> NULL]

NoCacheEvent ==
    [last |-> "none", site_code |-> "none", latest_reading_time |-> NULL,
     cached_before |-> {}]

InitCacheVars ==
    /\ cache = EmptyCache
    /\ stale_check = NoStaleCheck
    /\ state_rows = EmptyCache
    /\ cache_log = NoCacheEvent

\* detect_precursor_window was not called.
NotAnalyzed == [called |-> FALSE, some |-> FALSE]

InitAnalysisVars ==
    /\ observations = <<>>
    /\ precursor_window = NotAnalyzed

\* DaemonConfig::default().
DefaultConfig ==
    [poll_interval_minutes |-> 15, staleness_threshold_minutes |-> 60,
     backfill_days |-> 120]

NoBackfill ==
    [called |-> FALSE, site_code |-> "none", at |-> NULL, latest |-> NULL,
     ok |-> TRUE, requests |-> <<>>, results |-> <<>>]

InitBackfillVars ==
    /\ config = DefaultConfig
    /\ bf_call = NoBackfill

InitPollVars ==
    /\ monitoring_state = [id \in EntityIds |-> NoRow]
    /\ cwms_timeseries = {}
    /\ asos_observations = {}
    /\ cycle = IdleCycle
    /\ attempted = {}
    /\ results = {}
    /\ last_poll = NoPoll

(***************************************************************************)
(* Warehousing: Daemon::warehouse_readings and store_readings              *)
(***************************************************************************)

\* The longest batch of one store call.
MaxBatch == 2

Row(reading, time) ==
    [site_code |-> reading.site_code, parameter_code |-> reading.parameter_code,
     reading_time |-> time, value |-> reading.value]

Ok(n, table) == [ok |-> TRUE, inserted |-> n, table |-> table]
Err(table) == [ok |-> FALSE, inserted |-> NULL, table |-> table]

\* The for loop of warehouse_readings from reading i on, `inserted` rows
\* counted so far. Each execute commits on its own, so an error leaves the
\* rows of the readings before it in the table, and the Err carries no
\* count. failAt is the execute the store rejects (0: none).
RECURSIVE WarehouseLoop(_, _, _, _, _)
WarehouseLoop(table, readings, i, inserted, failAt) ==
    IF i > Len(readings) THEN Ok(inserted, table)
    ELSE LET reading_time == ParseReadingTime(readings[i].datetime)
             done == InsertReading(table, Row(readings[i], reading_time))
         IN  IF reading_time = NULL THEN Err(table)
             ELSE IF i = failAt THEN Err(table)
             ELSE WarehouseLoop(done.table, readings, i + 1,
                                inserted + done.rows_affected, failAt)

warehouse_readings(table, readings, failAt) ==
    WarehouseLoop(table, readings, 1, 0, failAt)

\* The loop of store_readings inside its transaction.
RECURSIVE StoreLoop(_, _, _, _, _)
StoreLoop(table, readings, i, inserted, failAt) ==
    IF i > Len(readings) THEN Ok(inserted, table)
    ELSE LET reading_time == TextToTimestamp(readings[i].datetime)
             done == InsertReading(table, Row(readings[i], reading_time))
         IN  IF reading_time = NULL THEN Err(table)
             ELSE IF i = failAt THEN Err(table)
             ELSE StoreLoop(done.table, readings, i + 1,
                            inserted + done.rows_affected, failAt)

\* store_readings: nothing to do for an empty batch; otherwise one
\* transaction, which an error drops before the commit (a rollback).
store_readings(table, readings, failAt) ==
    IF readings = <<>> THEN Ok(0, table)
    ELSE LET done == StoreLoop(table, readings, 1, 0, failAt)
         IN  IF done.ok THEN done ELSE Err(table)

\* The readings a store call may be given.
StoreTexts == {Rfc(2, 1), Naive(1), BadText}

StoreReadings ==
    [site_code : {SiteKingston}, parameter_code : {PARAM_DISCHARGE, PARAM_STAGE},
     datetime : StoreTexts, value : {10, 20}]

Batches(S, n) == UNION {[1..k -> S] : k \in 0..n}

\* What the call recorded of its batch: the keys its readings name, whether
\* every timestamp was readable, whether the store rejected a statement.
CallOf(op, readings, failAt) ==
    [op |-> op,
     keys |-> {<<readings[i].site_code, readings[i].parameter_code,
                 TextToTimestamp(readings[i].datetime)>> :
               i \in {j \in 1..Len(readings) :
                         TextToTimestamp(readings[j].datetime) # NULL}},
     readable |-> \A i \in 1..Len(readings) :
                     TextToTimestamp(readings[i].datetime) # NULL,
     rejected |-> failAt # 0,
     n |-> Len(readings)]

NoCall == [op |-> "none", keys |-> {}, readable |-> TRUE, rejected |-> FALSE, n |-> 0]

WarehouseReadings ==
    \E readings \in Batches(StoreReadings, MaxBatch) :
      \E failAt \in 0..Len(readings) :
        LET done == warehouse_readings(gauge_readings, readings, failAt)
        IN  /\ gauge_readings' = done.table
            /\ ret' = [ok |-> done.ok, inserted |-> done.inserted]
            /\ call' = CallOf("warehouse_readings", readings, failAt)
            /\ before' = gauge_readings
            /\ UNCHANGED <<clockVars, ingestVars, pollVars, backfillVars, analysisVars, cacheVars, parseVars, backwaterVars, severityVars, reanalysisVars, daemonVars, toolVars>>

StoreReadingsTx ==
    \E readings \in Batches(StoreReadings, MaxBatch) :
      \E failAt \in 0..Len(readings) :
        LET done == store_readings(gauge_readings, readings, failAt)
        IN  /\ gauge_readings' = done.table
            /\ ret' = [ok |-> done.ok, inserted |-> done.inserted]
            /\ call' = CallOf("store_readings", readings, failAt)
            /\ before' = gauge_readings
            /\ UNCHANGED <<clockVars, ingestVars, pollVars, backfillVars, analysisVars, cacheVars, parseVars, backwaterVars, severityVars, reanalysisVars, daemonVars, toolVars>>

InitStoreVars ==
    /\ call = NoCall
    /\ ret = [ok |-> TRUE, inserted |-> 0]
    /\ before = {}

InitStore ==
    /\ gauge_readings = {}
    /\ InitClock
    /\ InitStoreVars
    /\ InitIngestVars
    /\ InitPollVars
    /\ InitBackfillVars
    /\ InitAnalysisVars
    /\ InitCacheVars
    /\ InitParseVars
    /\ InitBackwaterVars
    /\ InitSeverityVars
    /\ InitReanalysisVars
    /\ InitDaemonVars
    /\ InitToolVars

NextStore == WarehouseReadings \/ StoreReadingsTx

SpecStore == InitStore /\ [][NextStore]_vars

\* C1: a store of a reading whose (site_code, parameter_code, reading_time)
\* key exists is a no-op. The table never holds two rows with one key; a
\* successful store leaves every key of its batch in the table; and a store
\* of a batch whose keys are all in the table already (so the same batch
\* stored a second time), which the store does not reject, succeeds, inserts
\* 0 rows and leaves the table, hence the row count, as it was.
C1_IdempotentStore ==
    /\ \A r1, r2 \in gauge_readings : KeyOf(r1) = KeyOf(r2) => r1 = r2
    /\ (call.op # "none" /\ ret.ok) => call.keys \subseteq Keys(gauge_readings)
    /\ (call.op # "none" /\ call.readable /\ ~call.rejected
          /\ call.keys \subseteq Keys(before))
       => /\ ret.ok
          /\ ret.inserted = 0
          /\ gauge_readings = before
          /\ Cardinality(gauge_readings) = Cardinality(before)

\* A second store of readings that are already there has happened: both
\* keys of a two-reading batch were in the table, and nothing was inserted.
C1_Witness ==
    /\ call.op \in {"warehouse_readings", "store_readings"}
    /\ call.n = 2
    /\ Cardinality(call.keys) = 2
    /\ call.keys \subseteq Keys(before)
    /\ ret.ok
    /\ ret.inserted = 0

(***************************************************************************)
(* bin/historical_ingest.rs: main, ingest_historical_dv, ingest_recent_iv, *)
(* incremental_update, one step per request, store or save                 *)
(***************************************************************************)

DV_EARLIEST_YEAR == 1939
IV_LOOKBACK_DAYS == 120

\* Days between now and the cutoff date of ingest_historical_dv.
DvCutoffDays == 125

\* How often historical_ingest is started in one behaviour.
MaxRuns == 3

\* cutoff_date.year()
YearOf(t) == DV_EARLIEST_YEAR + (t \div Days(DaysPerYear))

\* date.format("%Y-%m-%d"), as the number of the day since 1939-01-01.
DateOf(t) == t \div HoursPerDay

\* format!("{}-01-01", year) and format!("{}-12-31", year), as day numbers.
YearStart(year) == (year - DV_EARLIEST_YEAR) * DaysPerYear
YearEnd(year) == YearStart(year) + DaysPerYear - 1

\* A load that never reads the file.
LoadIgnoringFile(file) == DefaultState

\* IngestState::load: the file's state, or the default when there is none.
Load(file) == IF file.exists THEN file.st ELSE DefaultState

\* IngestState::save: the whole state replaces the file.
Saved(st) == [exists |-> TRUE, st |-> st]

\* The start year that requests the last completed year again.
StartYearSameYear(st) ==
    IF st.dv_last_year_completed = NULL THEN DV_EARLIEST_YEAR
    ELSE st.dv_last_year_completed

\* state.dv_last_year_completed.map(|y| y + 1).unwrap_or(DV_EARLIEST_YEAR)
StartYear(st) ==
    IF st.dv_last_year_completed = NULL THEN DV_EARLIEST_YEAR
    ELSE st.dv_last_year_completed + 1

\* The daily values the upstream holds for a window of a year: one reading
\* of its first day, with the naive timestamp of the daily-value service.
DvData(year) ==
    <<[site_code |-> SiteKingston, parameter_code |-> PARAM_DISCHARGE,
       datetime |-> Naive(Days(YearStart(year))), value |-> 10]>>

\* The latest instantaneous value the upstream holds at time t.
IvData(t) ==
    <<[site_code |-> SiteKingston, parameter_code |-> PARAM_STAGE,
       datetime |-> Rfc(t, 0), value |-> 20]>>

\* The process is gone, by return from main or by a crash: its memory with it.
Exit(status) ==
    /\ ipc' = "stopped"
    /\ exit_status' = status
    /\ state' = DefaultState
    /\ loc' = NoLocals
    /\ fetched' = <<>>

\* main, to its first phase: load the state and choose what to do.
RunMain ==
    /\ ipc = "stopped"
    /\ runs < MaxRuns
    /\ runs' = runs + 1
    /\ state' = Load(state_file)
    /\ ipc' = IF ~state'.dv_initialized THEN "dv_begin"
              ELSE IF ~state'.iv_initialized THEN "iv_fetch"
              ELSE "incr_fetch"
    /\ exit_status' = "none"
    /\ UNCHANGED <<state_file, loc, fetched, dv_requests, iv_requests>>
    /\ UNCHANGED <<dbVars, clockVars, storeVars, pollVars, backfillVars, analysisVars, cacheVars, parseVars, backwaterVars, severityVars, reanalysisVars, daemonVars, toolVars>>

\* ingest_historical_dv up to its loop: the cutoff, the end year, the start
\* year; nothing to do when the start year is past the end year.
DvBegin ==
    /\ ipc = "dv_begin"
    /\ LET cutoff == now - Days(DvCutoffDays)
           end_year == YearOf(cutoff)
           start_year == StartYear(state)
       IN  IF start_year > end_year
           THEN /\ state' = [state EXCEPT !.dv_initialized = TRUE]
                /\ ipc' = "dv_phase_save"
                /\ UNCHANGED loc
           ELSE /\ loc' = [year |-> start_year, start_year |-> start_year,
                           end_year |-> end_year, cutoff |-> cutoff]
                /\ ipc' = "dv_fetch"
                /\ UNCHANGED state
    /\ UNCHANGED <<state_file, fetched, dv_requests, iv_requests, runs, exit_status>>
    /\ UNCHANGED <<dbVars, clockVars, storeVars, pollVars, backfillVars, analysisVars, cacheVars, parseVars, backwaterVars, severityVars, reanalysisVars, daemonVars, toolVars>>

\* The window of one year of the loop: to the cutoff date in the end year.
DvWindow(l) ==
    [year |-> l.year, from |-> YearStart(l.year),
     to |-> IF l.year = l.end_year THEN DateOf(l.cutoff) ELSE YearEnd(l.year)]

\* fetch_dv_period for the year of the loop: the request goes out; a
\* transport error, or a response without usable data (parse_dv_response's
\* NoDataAvailable), returns the error from ingest_historical_dv and main.
DvFetch ==
    /\ ipc = "dv_fetch"
    /\ dv_requests' = dv_requests \cup {DvWindow(loc)}
    /\ \E outcome \in {"ok", "transport", "nodata"} :
         IF outcome = "ok"
         THEN /\ fetched' = DvData(loc.year)
              /\ ipc' = "dv_store"
              /\ UNCHANGED <<state, loc, exit_status>>
         ELSE Exit("err")
    /\ UNCHANGED <<state_file, iv_requests, runs>>
    /\ UNCHANGED <<dbVars, clockVars, storeVars, pollVars, backfillVars, analysisVars, cacheVars, parseVars, backwaterVars, severityVars, reanalysisVars, daemonVars, toolVars>>

\* Where main goes after store_readings(client, &readings)? whatever it
\* returned.
AfterStoreIgnoringError(ok, next) == next

\* store_readings(client, &readings)?: on, or out with the error.
AfterStore(ok, next) == IF ok THEN next ELSE "stopped"

\* store_readings for the fetched year.
DvStore ==
    /\ ipc = "dv_store"
    /\ \E failAt \in 0..Len(fetched) :
         LET done == store_readings(gauge_readings, fetched, failAt)
         IN  /\ gauge_readings' = done.table
             /\ IF AfterStore(done.ok, "dv_save") = "stopped"
                THEN Exit("err")
                ELSE /\ ipc' = "dv_save"
                     /\ UNCHANGED <<state, loc, fetched, exit_status>>
    /\ UNCHANGED <<state_file, dv_requests, iv_requests, runs>>
    /\ UNCHANGED <<clockVars, storeVars, pollVars, backfillVars, analysisVars, cacheVars, parseVars, backwaterVars, severityVars, reanalysisVars, daemonVars, toolVars>>

\* state.mark_dv_year_complete(year); state.save()?; then the next year
\* (after the pause), or the end of the loop with dv_initialized set in
\* memory. A failed write leaves the file as it was and ends the run.
DvSave ==
    /\ ipc = "dv_save"
    /\ \E written \in BOOLEAN :
         LET marked == [state EXCEPT !.dv_last_year_completed = loc.year]
         IN  IF ~written THEN Exit("err") /\ UNCHANGED state_file
             ELSE /\ state_file' = Saved(marked)
                  /\ fetched' = <<>>
                  /\ exit_status' = exit_status
                  /\ IF loc.year < loc.end_year
                     THEN /\ loc' = [loc EXCEPT !.year = loc.year + 1]
                          /\ state' = marked
                          /\ ipc' = "dv_fetch"
                     ELSE /\ loc' = loc
                          /\ state' = [marked EXCEPT !.dv_initialized = TRUE]
                          /\ ipc' = "dv_phase_save"
    /\ UNCHANGED <<dv_requests, iv_requests, runs>>
    /\ UNCHANGED <<dbVars, clockVars, storeVars, pollVars, backfillVars, analysisVars, cacheVars, parseVars, backwaterVars, severityVars, reanalysisVars, daemonVars, toolVars>>

\* main after ingest_historical_dv returned Ok: state.save()?, then phase 2
\* unless the instantaneous values are there.
DvPhaseSave ==
    /\ ipc = "dv_phase_save"
    /\ \E written \in BOOLEAN :
         IF ~written THEN Exit("err") /\ UNCHANGED state_file
         ELSE /\ state_file' = Saved(state)
              /\ ipc' = IF ~state.iv_initialized THEN "iv_fetch" ELSE "final_save"
              /\ UNCHANGED <<state, loc, fetched, exit_status>>
    /\ UNCHANGED <<dv_requests, iv_requests, runs>>
    /\ UNCHANGED <<dbVars, clockVars, storeVars, pollVars, backfillVars, analysisVars, cacheVars, parseVars, backwaterVars, severityVars, reanalysisVars, daemonVars, toolVars>>

\* The period of an instantaneous-value request: "P{n}D" or "PT{n}H",
\* asked at time `at`.
IvPeriod(unit, n, at) == [unit |-> unit, n |-> n, at |-> at]

\* ingest_recent_iv: the one pass of its loop (the 120 days of
\* IV_LOOKBACK_DAYS fit the 120 days of max_period_days) requests "P120D".
IvFetch ==
    /\ ipc = "iv_fetch"
    /\ iv_requests' = iv_requests \cup {IvPeriod("D", IV_LOOKBACK_DAYS, now)}
    /\ \E outcome \in {"ok", "transport", "nodata"} :
         IF outcome = "ok"
         THEN /\ fetched' = IvData(now)
              /\ ipc' = "iv_store"
              /\ UNCHANGED <<state, loc, exit_status>>
         ELSE Exit("err")
    /\ UNCHANGED <<state_file, dv_requests, runs>>
    /\ UNCHANGED <<dbVars, clockVars, storeVars, pollVars, backfillVars, analysisVars, cacheVars, parseVars, backwaterVars, severityVars, reanalysisVars, daemonVars, toolVars>>

\* store_readings for the instantaneous values, the end of the loop and
\* iv_initialized set in memory.
IvStore ==
    /\ ipc = "iv_store"
    /\ \E failAt \in 0..Len(fetched) :
         LET done == store_readings(gauge_readings, fetched, failAt)
         IN  /\ gauge_readings' = done.table
             /\ IF AfterStore(done.ok, "iv_phase_save") = "stopped"
                THEN Exit("err")
                ELSE /\ ipc' = "iv_phase_save"
                     /\ state' = [state EXCEPT !.iv_initialized = TRUE]
                     /\ fetched' = <<>>
                     /\ UNCHANGED <<loc, exit_status>>
    /\ UNCHANGED <<state_file, dv_requests, iv_requests, runs>>
    /\ UNCHANGED <<clockVars, storeVars, pollVars, backfillVars, analysisVars, cacheVars, parseVars, backwaterVars, severityVars, reanalysisVars, daemonVars, toolVars>>

\* main after ingest_recent_iv returned Ok: state.save()?
IvPhaseSave ==
    /\ ipc = "iv_phase_save"
    /\ \E written \in BOOLEAN :
         IF ~written THEN Exit("err") /\ UNCHANGED state_file
         ELSE /\ state_file' = Saved(state)
              /\ ipc' = "final_save"
              /\ UNCHANGED <<state, loc, fetched, exit_status>>
    /\ UNCHANGED <<dv_requests, iv_requests, runs>>
    /\ UNCHANGED <<dbVars, clockVars, storeVars, pollVars, backfillVars, analysisVars, cacheVars, parseVars, backwaterVars, severityVars, reanalysisVars, daemonVars, toolVars>>

\* state.mark_fully_initialized(); state.save()?; the end of main.
FinalSave ==
    /\ ipc = "final_save"
    /\ \E written \in BOOLEAN :
         LET marked == [state EXCEPT !.dv_initialized = TRUE,
                                     !.iv_initialized = TRUE,
                                     !.last_update = now]
         IN  IF ~written THEN Exit("err") /\ UNCHANGED state_file
             ELSE Exit("ok") /\ state_file' = Saved(marked)
    /\ UNCHANGED <<dv_requests, iv_requests, runs>>
    /\ UNCHANGED <<dbVars, clockVars, storeVars, pollVars, backfillVars, analysisVars, cacheVars, parseVars, backwaterVars, severityVars, reanalysisVars, daemonVars, toolVars>>

\* The period incremental_update asks for after `elapsed` hours: whole days
\* (at most 120) when at least one day has passed, else whole hours (at
\* least 1).
IncrementalPeriod(elapsed, at) ==
    IF elapsed \div HoursPerDay > 0
    THEN IvPeriod("D", IF elapsed \div HoursPerDay < 120
                       THEN elapsed \div HoursPerDay ELSE 120, at)
    ELSE IvPeriod("H", IF elapsed > 1 THEN elapsed ELSE 1, at)

\* incremental_update to its fetch: no last_update is an error; else the
\* period since the last update is requested.
IncrFetch ==
    /\ ipc = "incr_fetch"
    /\ IF state.last_update = NULL
       THEN Exit("err") /\ UNCHANGED iv_requests
       ELSE /\ iv_requests' = iv_requests
                \cup {IncrementalPeriod(now - state.last_update, now)}
            /\ \E outcome \in {"ok", "transport", "nodata"} :
                 IF outcome = "ok"
                 THEN /\ fetched' = IvData(now)
                      /\ ipc' = "incr_store"
                      /\ UNCHANGED <<state, loc, exit_status>>
                 ELSE Exit("err")
    /\ UNCHANGED <<state_file, dv_requests, runs>>
    /\ UNCHANGED <<dbVars, clockVars, storeVars, pollVars, backfillVars, analysisVars, cacheVars, parseVars, backwaterVars, severityVars, reanalysisVars, daemonVars, toolVars>>

\* store_readings of incremental_update.
IncrStore ==
    /\ ipc = "incr_store"
    /\ \E failAt \in 0..Len(fetched) :
         LET done == store_readings(gauge_readings, fetched, failAt)
         IN  /\ gauge_readings' = done.table
             /\ IF AfterStore(done.ok, "incr_save") = "stopped"
                THEN Exit("err")
                ELSE /\ ipc' = "incr_save"
                     /\ fetched' = <<>>
                     /\ UNCHANGED <<state, loc, exit_status>>
    /\ UNCHANGED <<state_file, dv_requests, iv_requests, runs>>
    /\ UNCHANGED <<clockVars, storeVars, pollVars, backfillVars, analysisVars, cacheVars, parseVars, backwaterVars, severityVars, reanalysisVars, daemonVars, toolVars>>

\* main after incremental_update returned Ok: state.update_timestamp();
\* state.save()?; the end of main.
IncrSave ==
    /\ ipc = "incr_save"
    /\ \E written \in BOOLEAN :
         IF ~written THEN Exit("err") /\ UNCHANGED state_file
         ELSE Exit("ok") /\ state_file' = Saved([state EXCEPT !.last_update = now])
    /\ UNCHANGED <<dv_requests, iv_requests, runs>>
    /\ UNCHANGED <<dbVars, clockVars, storeVars, pollVars, backfillVars, analysisVars, cacheVars, parseVars, backwaterVars, severityVars, reanalysisVars, daemonVars, toolVars>>

\* The process is interrupted (killed, power loss) at any point: the file
\* and the committed rows stay, an open transaction is rolled back.
Crash ==
    /\ ipc # "stopped"
    /\ Exit("crash")
    /\ UNCHANGED <<state_file, dv_requests, iv_requests, runs>>
    /\ UNCHANGED <<dbVars, clockVars, storeVars, pollVars, backfillVars, analysisVars, cacheVars, parseVars, backwaterVars, severityVars, reanalysisVars, daemonVars, toolVars>>

\* Time passes.
Tick ==
    /\ ticks < MaxTicks
    /\ \E d \in TickHours : now' = now + d
    /\ ticks' = ticks + 1
    /\ UNCHANGED <<dbVars, storeVars, ingestVars, pollVars, backfillVars, analysisVars, cacheVars, parseVars, backwaterVars, severityVars, reanalysisVars, daemonVars, toolVars>>

InitIngest ==
    /\ gauge_readings = {}
    /\ InitClock
    /\ InitStoreVars
    /\ InitIngestVars
    /\ InitPollVars
    /\ InitBackfillVars
    /\ InitAnalysisVars
    /\ InitCacheVars
    /\ InitParseVars
    /\ InitBackwaterVars
    /\ InitSeverityVars
    /\ InitReanalysisVars
    /\ InitDaemonVars
    /\ InitToolVars

NextIngest ==
    \/ RunMain
    \/ DvBegin
    \/ DvFetch
    \/ DvStore
    \/ DvSave
    \/ DvPhaseSave
    \/ IvFetch
    \/ IvStore
    \/ IvPhaseSave
    \/ FinalSave
    \/ IncrFetch
    \/ IncrStore
    \/ IncrSave
    \/ Crash
    \/ Tick

SpecIngest == InitIngest /\ [][NextIngest]_vars

\* The years for which the upstream holds no usable daily value of any
\* station: parse_dv_response answers NoDataAvailable for their windows.
NoDataYears == {DV_EARLIEST_YEAR + 2}

\* A step in which the upstream and the stores do their part: a request
\* for daily values fails only with NoDataAvailable and only for a year
\* without data, every other request returns data, and every write to the
\* database and to the state file is accepted.
Usable ==
    IF ipc = "dv_fetch"
    THEN (ipc' = "dv_store") <=> (loc.year \notin NoDataYears)
    ELSE exit_status' # "err"

\* main started once more after the counted runs; the count stays.
RunAgain ==
    /\ ipc = "stopped"
    /\ runs = MaxRuns
    /\ state' = Load(state_file)
    /\ ipc' = IF ~state'.dv_initialized THEN "dv_begin"
              ELSE IF ~state'.iv_initialized THEN "iv_fetch"
              ELSE "incr_fetch"
    /\ exit_status' = "none"
    /\ UNCHANGED <<state_file, loc, fetched, dv_requests, iv_requests, runs>>
    /\ UNCHANGED <<dbVars, clockVars, storeVars, pollVars, backfillVars, analysisVars, cacheVars, parseVars, backwaterVars, severityVars, reanalysisVars, daemonVars, toolVars>>

\* The runs of historical_ingest against such an upstream, without crashes,
\* one after the other without end.
NextIngestUsable ==
    \/ RunMain /\ Usable
    \/ RunAgain /\ Usable
    \/ DvBegin /\ Usable
    \/ DvFetch /\ Usable
    \/ DvStore /\ Usable
    \/ DvSave /\ Usable
    \/ DvPhaseSave /\ Usable
    \/ IvFetch /\ Usable
    \/ IvStore /\ Usable
    \/ IvPhaseSave /\ Usable
    \/ FinalSave /\ Usable
    \/ IncrFetch /\ Usable
    \/ IncrStore /\ Usable
    \/ IncrSave /\ Usable
    \/ Tick

\* A started run takes its next step, and the tool is run again after
\* every exit.
SpecIngestFair ==
    InitIngest /\ [][NextIngestUsable]_vars /\ WF_vars(NextIngestUsable)

\* C35: against an upstream whose requests all succeed at the transport
\* level and stores that accept every write, the runs of historical_ingest
\* eventually persist dv_initialized = true.
C35_DvEventuallyInitialized ==
    <>(state_file.exists /\ state_file.st.dv_initialized)

\* The time at which the period of an instantaneous-value request begins.
PeriodStart(period) ==
    period.at - (IF period.unit = "D" THEN Days(period.n) ELSE period.n)

\* A step of incremental_update in which the request went out and returned
\* data.
IncrRequested == ipc = "incr_fetch" /\ ipc' = "incr_store"

\* C36: the period that incremental_update requests begins no later than
\* the previous last_update, so the time from last_update to now is
\* requested in full.
C36_IncrementalCoversGap ==
    [][IncrRequested =>
          /\ IncrementalPeriod(now - state.last_update, now) \in iv_requests'
          /\ PeriodStart(IncrementalPeriod(now - state.last_update, now))
                 <= state.last_update]_vars

\* A day (numbered from 1939-01-01) lies in a requested daily-value window.
InDvWindow(day) == \E w \in dv_requests : w.from <= day /\ day <= w.to

\* A day lies in the period of a requested instantaneous-value window.
InIvWindow(day) ==
    \E r \in iv_requests : DateOf(PeriodStart(r)) <= day /\ day <= DateOf(r.at)

\* The initial ingest is complete: both phases are marked in the state file.
InitialIngestComplete ==
    /\ state_file.exists
    /\ state_file.st.dv_initialized
    /\ state_file.st.iv_initialized

\* C37: after a complete initial ingest every day from the first day of
\* DV_EARLIEST_YEAR to the day of the instantaneous-value request lies in a
\* requested daily-value window or in a requested instantaneous-value
\* period.
C37_NoDayUnrequested ==
    InitialIngestComplete =>
        \A r \in iv_requests :
            \A day \in YearStart(DV_EARLIEST_YEAR)..DateOf(r.at) :
                InDvWindow(day) \/ InIvWindow(day)

\* The cursor of the state file, and the year a run started from it begins
\* with.
Cursor == state_file.st.dv_last_year_completed
NextYearOf(cursor) == IF cursor = NULL THEN DV_EARLIEST_YEAR ELSE cursor + 1

RequestedYears == {r.year : r \in dv_requests}

\* The rows of a year's daily values are committed.
YearCommitted(year) ==
    \A i \in 1..Len(DvData(year)) :
      <<DvData(year)[i].site_code, DvData(year)[i].parameter_code,
        TextToTimestamp(DvData(year)[i].datetime)>> \in Keys(gauge_readings)

\* C2: a restarted multi-year load resumes at the year after the last
\* completed one. Whenever a year has just been requested (by the first
\* request of a run or by a later one, after any interruptions), that year
\* is the one after the persisted dv_last_year_completed, so no completed
\* year is requested again; and the years requested so far, over all runs,
\* are DV_EARLIEST_YEAR and every year up to the latest one, so none is
\* skipped.
C2_ResumeAtNextYear ==
    /\ ipc = "dv_store" => loc.year = NextYearOf(Cursor)
    /\ ipc = "dv_store" => loc.year \in RequestedYears
    /\ \A y \in RequestedYears :
         \A z \in DV_EARLIEST_YEAR..y : z \in RequestedYears

\* A run that was started after an interruption, from a file naming 1939 as
\* completed, has made its first request: for 1940.
C2_Witness ==
    /\ ipc = "dv_store"
    /\ runs >= 2
    /\ loc.year = loc.start_year
    /\ Cursor = DV_EARLIEST_YEAR
    /\ loc.year = DV_EARLIEST_YEAR + 1

\* C3: the cursor is saved after a year's rows are committed and before the
\* next year is fetched. At every point, crash points included: every year
\* up to the persisted dv_last_year_completed has its rows committed; the
\* year about to be fetched is the one after the persisted cursor (the save
\* of the year before it is on disk); and at most one year beyond the
\* cursor is committed, so a restart re-does at most that one year.
C3_CursorAfterCommit ==
    /\ Cursor # NULL => \A y \in DV_EARLIEST_YEAR..Cursor : YearCommitted(y)
    /\ ipc = "dv_fetch" => loc.year = NextYearOf(Cursor)
    /\ \A y \in DV_EARLIEST_YEAR..(DV_EARLIEST_YEAR + MaxTicks + 2) :
         YearCommitted(y) => y <= NextYearOf(Cursor)

\* The process went down between the commit of 1940 and the save of the
\* cursor: 1940 is committed, the file still names 1939.
C3_Witness ==
    /\ ipc = "stopped"
    /\ exit_status = "crash"
    /\ Cursor = DV_EARLIEST_YEAR
    /\ YearCommitted(DV_EARLIEST_YEAR + 1)


(***************************************************************************)
(* The polling cycle: Daemon::poll_all_stations                            *)
(***************************************************************************)

\* The largest consecutive_failures a monitoring_state row reaches.
MaxFailures == 2

Max(S) == CHOOSE x \in S : \A y \in S : y <= x

\* The timestamps poll_station's readings carry, as upstream texts.
PollTexts == {Rfc(now, 0), Rfc(now, 1), Naive(now), BadText}

PollReading(site, parameter_code, dt) ==
    [site_code |-> site, parameter_code |-> parameter_code, datetime |-> dt,
     value |-> 10]

\* What poll_station can return as Ok: parse_iv_response keeps the most recent
\* reading of each series, here the discharge and, if there is one, the stage.
PollBatches(site) ==
    {<<PollReading(site, PARAM_DISCHARGE, d)>> : d \in PollTexts}
    \cup {<<PollReading(site, PARAM_DISCHARGE, d), PollReading(site, PARAM_STAGE, s)>> :
            d \in PollTexts, s \in PollTexts}

\* `latest` of poll_all_stations: the maximum over the readings whose
\* datetime parses as RFC 3339 (filter_map(.. .ok())), None if none does.
LatestOf(readings) ==
    LET times == {parse_from_rfc3339(readings[i].datetime) : i \in 1..Len(readings)}
                 \ {NULL}
    IN  IF times = {} THEN NULL ELSE Max(times)

\* An upsert that leaves consecutive_failures of an existing row alone.
UpdateWithoutReset(ms, site_code, last_reading_time, at) ==
    [ms EXCEPT ![site_code] =
        [exists |-> TRUE, latest_reading_time |-> last_reading_time,
         consecutive_failures |-> IF ms[site_code].exists
                                  THEN ms[site_code].consecutive_failures ELSE 0,
         last_poll_attempted |-> at]]

\* An update_monitoring_state whose statement has no key: it writes the row
\* of every station.
UpdateEveryRow(ms, site_code, last_reading_time, at) ==
    [id \in DOMAIN ms |->
        [exists |-> TRUE, latest_reading_time |-> last_reading_time,
         consecutive_failures |-> 0, last_poll_attempted |-> at]]

\* update_monitoring_state's upsert: the inserted row and the updated row
\* both carry the new last_poll_attempted, the given latest_reading_time
\* (NULL for None) and consecutive_failures 0.
update_monitoring_state(ms, site_code, last_reading_time, at) ==
    [ms EXCEPT ![site_code] =
        [exists |-> TRUE, latest_reading_time |-> last_reading_time,
         consecutive_failures |-> 0, last_poll_attempted |-> at]]

\* record_failure's upsert: a new row starts at 1 failure with no
\* latest_reading_time, an existing one gets one more failure.
record_failure(ms, site_code, at) ==
    [ms EXCEPT ![site_code] =
        IF ms[site_code].exists
        THEN [ms[site_code] EXCEPT !.last_poll_attempted = at,
                                   !.consecutive_failures = @ + 1]
        ELSE [exists |-> TRUE, latest_reading_time |-> NULL,
              consecutive_failures |-> 1, last_poll_attempted |-> at]]

\* The entity's arm of the match is through: on to the next entity, or
\* Ok(results) after the last one.
Finish(c) ==
    IF c.i < Len(Work) THEN [c EXCEPT !.i = c.i + 1]
    ELSE [c EXCEPT !.i = 0, !.result = "ok"]

\* A `?` in poll_all_stations returns the error: the cycle ends here.
Abort(c) == [c EXCEPT !.i = 0, !.result = "err", !.persist_failed = TRUE]

Polled(e, returned, aborted_by, failures_before) ==
    [entity |-> e, returned |-> returned, aborted_by |-> aborted_by,
     failures_before |-> failures_before]

\* Daemon::run calls poll_all_stations: results starts empty.
StartCycle ==
    /\ cycle.i = 0
    /\ Len(Work) > 0
    /\ cycle' = [IdleCycle EXCEPT !.i = 1]
    /\ attempted' = {}
    /\ results' = {}
    /\ UNCHANGED <<monitoring_state, cwms_timeseries, asos_observations, last_poll>>
    /\ UNCHANGED <<dbVars, clockVars, storeVars, ingestVars, backfillVars, analysisVars, cacheVars, parseVars, backwaterVars, severityVars, reanalysisVars, daemonVars, toolVars>>

\* The Ok(readings) arm of the USGS loop: warehouse_readings?, latest,
\* update_monitoring_state?, results.insert.
PollStationOk ==
    /\ cycle.i > 0
    /\ Work[cycle.i].class = "USGS"
    /\ LET e == Work[cycle.i]
           failures == monitoring_state[e.id].consecutive_failures
       IN  \E readings \in PollBatches(e.id), failAt \in 0..MaxBatch,
              state_fails \in BOOLEAN :
             LET done == warehouse_readings(gauge_readings, readings, failAt)
                 latest == LatestOf(readings)
             IN  /\ failAt <= Len(readings)
                 /\ gauge_readings' = done.table
                 /\ attempted' = attempted \cup {e}
                 /\ IF ~done.ok
                    THEN /\ cycle' = Abort(cycle)
                         /\ last_poll' = Polled(e, "ok", "warehouse_readings", failures)
                         /\ UNCHANGED <<monitoring_state, results>>
                    ELSE IF state_fails
                    THEN /\ cycle' = Abort(cycle)
                         /\ last_poll' = Polled(e, "ok", "update_monitoring_state", failures)
                         /\ UNCHANGED <<monitoring_state, results>>
                    ELSE /\ monitoring_state' =
                              update_monitoring_state(monitoring_state, e.id, latest, now)
                         /\ results' = results \cup {e}
                         /\ cycle' = Finish(cycle)
                         /\ last_poll' = Polled(e, "ok", "none", failures)
    /\ UNCHANGED <<cwms_timeseries, asos_observations>>
    /\ UNCHANGED <<clockVars, storeVars, ingestVars, backfillVars, analysisVars, cacheVars, parseVars, backwaterVars, severityVars, reanalysisVars, daemonVars, toolVars>>

\* The Err(e) arm of the USGS loop: poll_station failed on the request, the
\* status, the body or the parse (NoDataAvailable included);
\* record_failure?, results.insert(.., 0).
PollStationErr ==
    /\ cycle.i > 0
    /\ Work[cycle.i].class = "USGS"
    /\ LET e == Work[cycle.i]
           failures == monitoring_state[e.id].consecutive_failures
       IN  /\ failures < MaxFailures
           /\ \E error \in {"http_error", "no_data"}, record_fails \in BOOLEAN :
                /\ attempted' = attempted \cup {e}
                /\ IF record_fails
                   THEN /\ cycle' = Abort([cycle EXCEPT !.poll_failed = TRUE])
                        /\ last_poll' = Polled(e, error, "record_failure", failures)
                        /\ UNCHANGED <<monitoring_state, results>>
                   ELSE /\ monitoring_state' = record_failure(monitoring_state, e.id, now)
                        /\ results' = results \cup {e}
                        /\ cycle' = Finish([cycle EXCEPT !.poll_failed = TRUE])
                        /\ last_poll' = Polled(e, error, "none", failures)
    /\ UNCHANGED <<cwms_timeseries, asos_observations>>
    /\ UNCHANGED <<dbVars, clockVars, storeVars, ingestVars, backfillVars, analysisVars, cacheVars, parseVars, backwaterVars, severityVars, reanalysisVars, daemonVars, toolVars>>


CwmsLocation(name) ==
    CHOOSE l \in {cwms_locations[i] : i \in 1..Len(cwms_locations)} : l.name = name

\* INSERT INTO usace.cwms_timeseries .. ON CONFLICT (location_id, timestamp,
\* parameter_id) DO NOTHING, for the one record of a fetched timeseries.
warehouse_cwms_timeseries(table, location_id, parameter_id, timestamp) ==
    table \cup {[location_id |-> location_id, timestamp |-> timestamp,
                 parameter_id |-> parameter_id]}

\* poll_cwms_location from its k-th discovered timeseries on (pool elevation,
\* tailwater elevation, stage, in that order): a failed fetch is printed and
\* skipped, a failed insert returns the error without fetching the rest.
RECURSIVE poll_cwms_location(_, _, _, _, _)
poll_cwms_location(table, location, k, outcomes, at) ==
    IF k > Len(location.discovered) THEN [ok |-> TRUE, table |-> table]
    ELSE IF outcomes[k] = "fetch_err"
    THEN poll_cwms_location(table, location, k + 1, outcomes, at)
    ELSE IF outcomes[k] = "store_err" THEN [ok |-> FALSE, table |-> table]
    ELSE poll_cwms_location(
            warehouse_cwms_timeseries(table, location.name, location.discovered[k], at),
            location, k + 1, outcomes, at)

\* The CWMS loop: both arms of the match insert into results and go on.
PollCwms ==
    /\ cycle.i > 0
    /\ Work[cycle.i].class = "CWMS"
    /\ LET e == Work[cycle.i]
           location == CwmsLocation(e.id)
           failures == monitoring_state[e.id].consecutive_failures
       IN  \E outcomes \in [1..Len(location.discovered) -> {"ok", "fetch_err", "store_err"}] :
             LET done == poll_cwms_location(cwms_timeseries, location, 1, outcomes, now)
             IN  /\ cwms_timeseries' = done.table
                 /\ attempted' = attempted \cup {e}
                 /\ results' = results \cup {e}
                 /\ cycle' = Finish([cycle EXCEPT !.persist_failed = @ \/ ~done.ok])
                 /\ last_poll' = Polled(e, IF done.ok THEN "ok" ELSE "store_error",
                                        "none", failures)
    /\ UNCHANGED <<monitoring_state, asos_observations>>
    /\ UNCHANGED <<dbVars, clockVars, storeVars, ingestVars, backfillVars, analysisVars, cacheVars, parseVars, backwaterVars, severityVars, reanalysisVars, daemonVars, toolVars>>

\* INSERT INTO asos_observations .. ON CONFLICT (station_id,
\* observation_time) DO NOTHING, for one observation.
warehouse_asos_observations(table, station_id, timestamp) ==
    table \cup {[station_id |-> station_id, observation_time |-> timestamp]}

\* The Ok(observations) arm of the ASOS loop:
\* warehouse_asos_observations?, results.insert.
PollAsosOk ==
    /\ cycle.i > 0
    /\ Work[cycle.i].class = "ASOS"
    /\ LET e == Work[cycle.i]
           failures == monitoring_state[e.id].consecutive_failures
       IN  \E store_fails \in BOOLEAN :
             /\ attempted' = attempted \cup {e}
             /\ IF store_fails
                THEN /\ cycle' = Abort(cycle)
                     /\ last_poll' = Polled(e, "ok", "warehouse_asos_observations", failures)
                     /\ UNCHANGED <<asos_observations, results>>
                ELSE /\ asos_observations' =
                           warehouse_asos_observations(asos_observations, e.id, now)
                     /\ results' = results \cup {e}
                     /\ cycle' = Finish(cycle)
                     /\ last_poll' = Polled(e, "ok", "none", failures)
    /\ UNCHANGED <<monitoring_state, cwms_timeseries>>
    /\ UNCHANGED <<dbVars, clockVars, storeVars, ingestVars, backfillVars, analysisVars, cacheVars, parseVars, backwaterVars, severityVars, reanalysisVars, daemonVars, toolVars>>

\* The Err(e) arm of the ASOS loop: poll_asos_station failed; the error is
\* printed and results gets a 0.
PollAsosErr ==
    /\ cycle.i > 0
    /\ Work[cycle.i].class = "ASOS"
    /\ LET e == Work[cycle.i]
           failures == monitoring_state[e.id].consecutive_failures
       IN  /\ attempted' = attempted \cup {e}
           /\ results' = results \cup {e}
           /\ cycle' = Finish([cycle EXCEPT !.poll_failed = TRUE])
           /\ last_poll' = Polled(e, "http_error", "none", failures)
    /\ UNCHANGED <<monitoring_state, cwms_timeseries, asos_observations>>
    /\ UNCHANGED <<dbVars, clockVars, storeVars, ingestVars, backfillVars, analysisVars, cacheVars, parseVars, backwaterVars, severityVars, reanalysisVars, daemonVars, toolVars>>

InitPoll ==
    /\ gauge_readings = {}
    /\ InitClock
    /\ InitStoreVars
    /\ InitIngestVars
    /\ InitPollVars
    /\ InitBackfillVars
    /\ InitAnalysisVars
    /\ InitCacheVars
    /\ InitParseVars
    /\ InitBackwaterVars
    /\ InitSeverityVars
    /\ InitReanalysisVars
    /\ InitDaemonVars
    /\ InitToolVars

NextPoll ==
    \/ StartCycle
    \/ PollStationOk
    \/ PollStationErr
    \/ PollCwms
    \/ PollAsosOk
    \/ PollAsosErr

SpecPoll == InitPoll /\ [][NextPoll]_vars


\* poll_all_stations has returned, Ok or Err.
CycleEnded == cycle.i = 0 /\ cycle.result # "none"

\* The consecutive-failure counter kept for an entity.
FailureCounter(e) == monitoring_state[e.id].consecutive_failures

\* The poll of last_poll.entity failed (the poll function returned Err) and
\* no later `?` cut its match arm short.
LastPollFailed == last_poll.returned \notin {"none", "ok"} /\ last_poll.aborted_by = "none"

\* The poll of last_poll.entity succeeded and its match arm ran to its end.
LastPollSucceeded == last_poll.returned = "ok" /\ last_poll.aborted_by = "none"

\* C4: whenever a cycle of poll_all_stations in which the poll of some entity
\* failed has ended, every configured entity (USGS, CWMS, ASOS) was attempted
\* in it: the failure did not abort the rest of the cycle.
C4_EveryEntityAttempted ==
    (CycleEnded /\ cycle.poll_failed) => attempted = Entities

\* C5: whenever a cycle in which a persistence error occurred (storing an
\* entity's readings or updating its monitoring state) has ended, the
\* entities after that one were still polled: every entity was attempted.
C5_PersistenceErrorAbortsOnlyBatch ==
    (CycleEnded /\ cycle.persist_failed) => attempted = Entities

\* C6: after a failed poll of an entity of any class, that entity has a
\* recorded consecutive-failure counter one above its value before the poll.
C6_FailedPollCounted ==
    LastPollFailed =>
        /\ monitoring_state[last_poll.entity.id].exists
        /\ FailureCounter(last_poll.entity) = last_poll.failures_before + 1

\* C7: after a successful poll of an entity its consecutive-failure counter
\* is zero, whatever it was before the poll.
C7_SuccessResetsCounter ==
    LastPollSucceeded => FailureCounter(last_poll.entity) = 0

\* C34: after a poll of an entity that ended with NoDataAvailable, the
\* entity's consecutive-failure counter is what it was before the poll.
C34_NoDataNotCounted ==
    (last_poll.returned = "no_data" /\ last_poll.aborted_by = "none") =>
        FailureCounter(last_poll.entity) = last_poll.failures_before

\* A successful poll of a station that had failed polls on its counter.
C7_Witness ==
    /\ LastPollSucceeded
    /\ last_poll.entity.class = "USGS"
    /\ last_poll.failures_before > 0
    /\ monitoring_state[last_poll.entity.id].exists
    /\ FailureCounter(last_poll.entity) = 0

\* C8: a recorded latest-reading timestamp never moves to an earlier time
\* and never becomes empty once it is set.
C8_LatestNeverRegresses ==
    [][\A id \in EntityIds :
         monitoring_state[id].latest_reading_time # NULL =>
            /\ monitoring_state'[id].latest_reading_time # NULL
            /\ monitoring_state'[id].latest_reading_time
                   >= monitoring_state[id].latest_reading_time]_vars


(***************************************************************************)
(* Backfill: Daemon::backfill_station                                      *)
(***************************************************************************)

\* The range of the instantaneous-values API in days (the 120 of
\* backfill_station).
IvRangeDays == 120

\* chrono::Duration::num_days and num_hours of a non-negative duration kept
\* in hours: whole units, the fraction dropped.
num_days(d) == d \div HoursPerDay
num_hours(d) == d

\* SELECT MAX(reading_time) .. WHERE site_code = $1: NULL when no row.
LatestReading(table, site_code) ==
    LET times == {row.reading_time : row \in {r \in table : r.site_code = site_code}}
    IN  IF times = {} THEN NULL ELSE Max(times)

\* check_staleness at time `at`: Some(now - latest), or None (NULL).
check_staleness(table, site_code, at) ==
    IF LatestReading(table, site_code) = NULL THEN NULL
    ELSE at - LatestReading(table, site_code)

\* The upstream requests of a backfill: the period of build_iv_url in days,
\* or the start and end dates of build_dv_url.
IvRequest(days) == [api |-> "iv", days |-> days, start |-> NULL, end |-> NULL]
DvRequest(start, end) == [api |-> "dv", days |-> NULL, start |-> start, end |-> end]

\* How long before the request the instantaneous values held upstream were
\* measured, oldest first, in hours.
IvSampleOffsets == <<Days(100), 30, 1>>

\* All readings of the period P{days}D before `at`, as
\* parse_iv_response_all returns them.
IvPeriodData(site_code, days, at) ==
    LET InPeriod(offset) == offset <= Days(days)
        offsets == SelectSeq(IvSampleOffsets, InPeriod)
    IN  [i \in 1..Len(offsets) |->
           [site_code |-> site_code, parameter_code |-> PARAM_DISCHARGE,
            datetime |-> Rfc(at - offsets[i], 0), value |-> 10]]

\* The daily values of the dates start..end as parse_dv_response returns
\* them: the first and the last day's.
DvPeriodData(site_code, start, end) ==
    LET days == IF start > end THEN <<>>
                ELSE IF start = end THEN <<start>> ELSE <<start, end>>
    IN  [i \in 1..Len(days) |->
           [site_code |-> site_code, parameter_code |-> PARAM_DISCHARGE,
            datetime |-> Naive(Days(days[i])), value |-> 10]]

\* What a request function returns, with the requests it made and, for each
\* of them, whether the function returned Ok.
Fetched(done, requests) ==
    [ok |-> done.ok, inserted |-> done.inserted, table |-> done.table,
     requests |-> requests, results |-> [i \in 1..Len(requests) |-> done.ok]]

\* backfill_instantaneous_values: an error of the request, the status or the
\* parse is returned; else the readings go to warehouse_readings.
backfill_instantaneous_values(table, site_code, days, at, outcome) ==
    IF outcome \in {"http_error", "parse_error"}
    THEN Fetched(Err(table), <<IvRequest(days)>>)
    ELSE Fetched(warehouse_readings(table, IvPeriodData(site_code, days, at),
                                    IF outcome = "store_error" THEN 1 ELSE 0),
                 <<IvRequest(days)>>)

\* backfill_daily_values: the dates are start_date and end_date formatted
\* "%Y-%m-%d"; an error of the request or the status is returned, a parse
\* error gives Ok(0), else the readings go to warehouse_readings.
backfill_daily_values(table, site_code, start_date, end_date, outcome) ==
    LET request == DvRequest(DateOf(start_date), DateOf(end_date))
    IN  IF outcome = "http_error" THEN Fetched(Err(table), <<request>>)
        ELSE IF outcome = "parse_error" THEN Fetched(Ok(0, table), <<request>>)
        ELSE Fetched(warehouse_readings(table,
                        DvPeriodData(site_code, request.start, request.end),
                        IF outcome = "store_error" THEN 1 ELSE 0),
                     <<request>>)

\* total_inserted += second?, after a first step that was Ok.
Join(first, second) ==
    [ok |-> second.ok,
     inserted |-> IF second.ok THEN first.inserted + second.inserted ELSE NULL,
     table |-> second.table,
     requests |-> first.requests \o second.requests,
     results |-> first.results \o second.results]

\* The match without its Err arm: a failed instantaneous request is the end.
IvWithoutFallback(table, site_code, days, fallback_start, at, iv, dv) ==
    backfill_instantaneous_values(table, site_code, days, at, iv)

\* match self.backfill_instantaneous_values(site_code, days) { Ok(count) => ..,
\* Err(e) => self.backfill_daily_values(site_code, fallback_start, now)? }
IvWithFallback(table, site_code, days, fallback_start, at, iv, dv) ==
    LET high == backfill_instantaneous_values(table, site_code, days, at, iv)
        low == backfill_daily_values(high.table, site_code, fallback_start, at, dv)
    IN  IF high.ok THEN high
        ELSE [low EXCEPT !.requests = high.requests \o low.requests,
                         !.results = high.results \o low.results]

\* backfill_station at time `at`: iv, dv_old and dv_fallback are what
\* happens to the instantaneous request, to the daily request for the old
\* data and to the daily request made as fallback.
backfill_station(table, site_code, at, cfg, iv, dv_old, dv_fallback) ==
    LET latest == LatestReading(table, site_code)
        staleness == at - latest
        gap_days == num_days(staleness)
        horizon == at - Days(IvRangeDays)
    IN  IF latest = NULL
        THEN LET recent == IvWithFallback(table, site_code, IvRangeDays, horizon, at,
                                          iv, dv_fallback)
                 deep == backfill_daily_values(recent.table, site_code,
                                               at - Days(cfg.backfill_days), horizon,
                                               dv_old)
             IN  IF ~recent.ok THEN recent
                 ELSE IF cfg.backfill_days > IvRangeDays THEN Join(recent, deep)
                 ELSE recent
        ELSE IF gap_days <= IvRangeDays
        THEN IvWithFallback(table, site_code, gap_days, at - staleness, at,
                            iv, dv_fallback)
        ELSE LET old_data_start == at - staleness
                 old_data_end == horizon
                 old == IF old_data_end > old_data_start
                        THEN backfill_daily_values(table, site_code, old_data_start,
                                                   old_data_end, dv_old)
                        ELSE Fetched(Ok(0, table), <<>>)
                 recent == IvWithFallback(old.table, site_code, IvRangeDays, horizon,
                                          at, iv, dv_fallback)
             IN  IF ~old.ok THEN old ELSE Join(old, recent)


IvOutcomes == {"ok", "http_error", "parse_error", "store_error"}
DvOutcomes == {"ok", "http_error", "parse_error", "store_error"}

\* main: a station with no data, or whose data is more than 2 hours old, is
\* backfilled.
BackfillStation ==
    /\ \E site_code \in {stations[i] : i \in 1..Len(stations)} :
         LET staleness == check_staleness(gauge_readings, site_code, now)
         IN  /\ staleness = NULL \/ num_hours(staleness) > 2
             /\ \E iv \in IvOutcomes, dv_old \in DvOutcomes, dv_fallback \in DvOutcomes :
                  LET done == backfill_station(gauge_readings, site_code, now, config,
                                               iv, dv_old, dv_fallback)
                  IN  /\ gauge_readings' = done.table
                      /\ bf_call' = [called |-> TRUE, site_code |-> site_code,
                                     at |-> now,
                                     latest |-> LatestReading(gauge_readings, site_code),
                                     ok |-> done.ok, requests |-> done.requests,
                                     results |-> done.results]
    /\ UNCHANGED config
    /\ UNCHANGED <<clockVars, storeVars, ingestVars, pollVars, analysisVars, cacheVars, parseVars, backwaterVars, severityVars, reanalysisVars, daemonVars, toolVars>>

\* How old the newest stored reading is when the daemon starts, in hours.
InitStaleness ==
    {1, 3, 36, Days(IvRangeDays), Days(IvRangeDays) + 12, Days(IvRangeDays + 1),
     Days(200)}

InitTables ==
    {{}} \cup {{[site_code |-> SiteKingston, parameter_code |-> PARAM_DISCHARGE,
                 reading_time |-> InitNow - s, value |-> 10]} : s \in InitStaleness}

Configs == {DefaultConfig, [DefaultConfig EXCEPT !.backfill_days = 150]}

InitBackfill ==
    /\ gauge_readings \in InitTables
    /\ InitClock
    /\ InitStoreVars
    /\ InitIngestVars
    /\ InitPollVars
    /\ config \in Configs
    /\ bf_call = NoBackfill
    /\ InitAnalysisVars
    /\ InitCacheVars
    /\ InitParseVars
    /\ InitBackwaterVars
    /\ InitSeverityVars
    /\ InitReanalysisVars
    /\ InitDaemonVars
    /\ InitToolVars

NextBackfill == BackfillStation \/ Tick

SpecBackfill == InitBackfill /\ [][NextBackfill]_vars

\* A stored reading existed before the last call of backfill_station, and
\* this is its age at the call.
GapBefore == bf_call.at - bf_call.latest

\* C9: after a call of backfill_station that found the last stored reading
\* more than 120 days old and returned Ok, the call has requested daily
\* values from the day of that reading up to the day 120 days back, and
\* instantaneous values for the last 120 days.
C9_HybridBackfill ==
    (bf_call.called /\ bf_call.ok /\ bf_call.latest # NULL
        /\ GapBefore > Days(IvRangeDays)) =>
        /\ \E i \in 1..Len(bf_call.requests) :
             /\ bf_call.requests[i].api = "dv"
             /\ bf_call.requests[i].start <= DateOf(bf_call.latest)
             /\ bf_call.requests[i].end >= DateOf(bf_call.at - Days(IvRangeDays))
        /\ \E i \in 1..Len(bf_call.requests) :
             bf_call.requests[i] = IvRequest(IvRangeDays)

\* C10: after a call of backfill_station that found the last stored reading
\* at most 120 days old, the call has requested an instantaneous-value
\* period that starts no later than the time of that reading.
C10_WholeGapHighRes ==
    (bf_call.called /\ bf_call.latest # NULL /\ GapBefore <= Days(IvRangeDays)) =>
        \E i \in 1..Len(bf_call.requests) :
           /\ bf_call.requests[i].api = "iv"
           /\ bf_call.at - Days(bf_call.requests[i].days) <= bf_call.latest


\* The i-th request of the last backfill was an instantaneous-value request
\* that failed.
FailedIv(i) == bf_call.requests[i].api = "iv" /\ ~bf_call.results[i]

\* The first day of the period of the i-th (instantaneous) request.
IvWindowStart(i) == DateOf(bf_call.at - Days(bf_call.requests[i].days))

C12_FailedYearKeepsCursor ==
    [][(ipc \in {"dv_fetch", "dv_store"} /\ exit_status' = "err") =>
          /\ state_file' = state_file
          /\ ~Load(state_file').dv_initialized
          /\ StartYear(Load(state_file')) = loc.year]_vars

\* A run ended with an error in 1940 (its rows are not committed) and the
\* file still names 1939 as the last completed year.
C12_Witness ==
    /\ ipc = "stopped"
    /\ exit_status = "err"
    /\ DV_EARLIEST_YEAR + 1 \in RequestedYears
    /\ ~YearCommitted(DV_EARLIEST_YEAR + 1)
    /\ Cursor = DV_EARLIEST_YEAR
    /\ ~state_file.st.dv_initialized


(***************************************************************************)
(* Flood event analysis: detect_precursor_window                           *)
(***************************************************************************)

\* The longest generated observation list.
MaxObs == 4

\* The timestamps of this section are in minutes.
MinutesPerHour == 60

ObsDays(n) == Days(n) * MinutesPerHour

\* chrono::Duration::num_hours of a duration in minutes: whole hours,
\* rounded toward zero.
ObsHours(d) ==
    IF d >= 0 THEN d \div MinutesPerHour ELSE -((-d) \div MinutesPerHour)

\* AnalysisConfig::default(); feet in tenths of a foot.
DefaultAnalysisConfig ==
    [precursor_lookback_days |-> 14, significant_rise_threshold_ft |-> 20,
     rise_rate_threshold_ft_per_day |-> 5, post_peak_window_days |-> 7,
     backwater_differential_threshold_ft |-> 20]

\* event.crest_time, the peak_time of the analysis.
CrestTime == ObsDays(DaysPerYear)

EventObservation(timestamp, stage_ft) == [timestamp |-> timestamp, stage_ft |-> stage_ft]

\* The observations of test_detect_precursor_window: 15.0 ft five days
\* before the crest, rising to 21.5 ft at the crest.
RisingSeries ==
    <<EventObservation(CrestTime - ObsDays(5), 150),
      EventObservation(CrestTime - ObsDays(4), 165),
      EventObservation(CrestTime - ObsDays(3), 182),
      EventObservation(CrestTime - ObsDays(2), 198),
      EventObservation(CrestTime, 215)>>

\* A rate in tenths of a foot per day as an exact fraction num / den, den > 0.
Rate(num, den) == [num |-> num, den |-> den]
ZeroRate == Rate(0, 1)

\* f64::max of two rates.
MaxRate(a, b) == IF a.num * b.den >= b.num * a.den THEN a ELSE b

\* Option::None of detect_precursor_window.
NoWindow == [called |-> TRUE, some |-> FALSE]

\* The for loop over observations.iter().enumerate().rev() from index i
\* down: an observation without a stage is passed over, one whose rise to
\* the peak is at or above the threshold becomes rise_start_idx, the first
\* one below the threshold breaks the loop.
RECURSIVE RiseStartScan(_, _, _, _, _)
RiseStartScan(obs, i, rise_start_idx, peak_stage, threshold) ==
    IF i = 0 THEN rise_start_idx
    ELSE IF obs[i].stage_ft = NULL
    THEN RiseStartScan(obs, i - 1, rise_start_idx, peak_stage, threshold)
    ELSE IF peak_stage - obs[i].stage_ft >= threshold
    THEN RiseStartScan(obs, i - 1, i, peak_stage, threshold)
    ELSE rise_start_idx

\* The loop over observations[start_idx..].windows(2) from pair (i, i + 1)
\* on: the largest rise rate of two consecutive staged observations that
\* are an hour or more apart, over the whole hours between them, not below 0.
RECURSIVE MaxRiseRate(_, _, _)
MaxRiseRate(obs, i, max_rise_rate) ==
    IF i >= Len(obs) THEN max_rise_rate
    ELSE LET hours == ObsHours(obs[i + 1].timestamp - obs[i].timestamp)
         IN  IF obs[i].stage_ft # NULL /\ obs[i + 1].stage_ft # NULL /\ hours > 0
             THEN MaxRiseRate(obs, i + 1,
                     MaxRate(max_rise_rate,
                             Rate((obs[i + 1].stage_ft - obs[i].stage_ft) * HoursPerDay,
                                  hours)))
             ELSE MaxRiseRate(obs, i + 1, max_rise_rate)

detect_precursor_window(obs, peak_time, cfg) ==
    LET stages == {obs[i].stage_ft : i \in 1..Len(obs)} \ {NULL}
    IN  IF Len(obs) = 0 \/ stages = {} THEN NoWindow
        ELSE
        LET peak_stage == Max(stages)
            start_idx == RiseStartScan(obs, Len(obs), NULL, peak_stage,
                                       cfg.significant_rise_threshold_ft)
        IN  IF start_idx = NULL THEN NoWindow
            ELSE
            LET start_time == obs[start_idx].timestamp
                total_rise == peak_stage - obs[start_idx].stage_ft
                duration_hours == ObsHours(peak_time - start_time)
            IN  [called |-> TRUE, some |-> TRUE,
                 start |-> start_time, end |-> peak_time,
                 total_rise_ft |-> total_rise,
                 rise_duration_hours |-> duration_hours,
                 average_rise_rate_ft_per_day |->
                     IF duration_hours > 0
                     THEN Rate(total_rise * HoursPerDay, duration_hours)
                     ELSE ZeroRate,
                 max_rise_rate_ft_per_day |-> MaxRiseRate(obs, start_idx, ZeroRate)]


\* The stages of the generated observations: none, 15.0, 19.5, 19.8 and
\* 21.5 ft.
ObsStages == {NULL, 150, 195, 198, 215}

\* The minutes between two readings of a gauge that reports more than once
\* a day.
ReadingGaps == {30, 90, 120}

\* A crest of 21.5 ft followed by readings of 15.0, 17.5 and 16.0 ft.
GaugeSeries(gap1, gap2) ==
    <<EventObservation(CrestTime, 215),
      EventObservation(CrestTime + ObsDays(1), 150),
      EventObservation(CrestTime + ObsDays(1) + gap1, 175),
      EventObservation(CrestTime + ObsDays(1) + gap1 + gap2, 160)>>

\* Observation lists as load_observations returns them, ordered by time:
\* one observation a day from two days before the crest, or the readings of
\* a gauge after the crest.
ObservationLists ==
    {RisingSeries} \cup
    {GaugeSeries(gap1, gap2) : gap1 \in ReadingGaps, gap2 \in ReadingGaps} \cup
    UNION {{[i \in 1..n |-> EventObservation(CrestTime + ObsDays(i - 3), st[i])] :
              st \in [1..n -> ObsStages]} : n \in 0..MaxObs}

\* analyze_event: load_observations, then detect_precursor_window.
LoadObservations ==
    /\ observations = <<>>
    /\ ~precursor_window.called
    /\ observations' \in ObservationLists
    /\ UNCHANGED precursor_window
    /\ UNCHANGED <<dbVars, clockVars, storeVars, ingestVars, pollVars, backfillVars,
                   cacheVars, parseVars, backwaterVars, severityVars, reanalysisVars, daemonVars, toolVars>>

DetectPrecursorWindow ==
    /\ ~precursor_window.called
    /\ precursor_window' =
          detect_precursor_window(observations, CrestTime, DefaultAnalysisConfig)
    /\ UNCHANGED observations
    /\ UNCHANGED <<dbVars, clockVars, storeVars, ingestVars, pollVars, backfillVars,
                   cacheVars, parseVars, backwaterVars, severityVars, reanalysisVars, daemonVars, toolVars>>

InitAnalysis ==
    /\ gauge_readings = {}
    /\ InitClock
    /\ InitStoreVars
    /\ InitIngestVars
    /\ InitPollVars
    /\ InitBackfillVars
    /\ InitAnalysisVars
    /\ InitCacheVars
    /\ InitParseVars
    /\ InitBackwaterVars
    /\ InitSeverityVars
    /\ InitReanalysisVars
    /\ InitDaemonVars
    /\ InitToolVars

NextAnalysis == LoadObservations \/ DetectPrecursorWindow

SpecAnalysis == InitAnalysis /\ [][NextAnalysis]_vars

\* The rise from observation i to the highest stage of the observations.
RiseToPeak(i) ==
    Max({observations[k].stage_ft : k \in 1..Len(observations)} \ {NULL})
        - observations[i].stage_ft

Staged == {i \in 1..Len(observations) : observations[i].stage_ft # NULL}

Crossing == {i \in Staged : RiseToPeak(i) >= DefaultAnalysisConfig.significant_rise_threshold_ft}

\* C13: for the series rising from 15.0 ft to 21.5 ft over the five days to
\* the peak, detect_precursor_window returns a window that starts at the
\* earliest point 2.0 ft or more below the peak (the first one), with a total
\* rise of 6.5 ft and an average rise rate above 0.
C13_RisingSeriesWindow ==
    (observations = RisingSeries /\ precursor_window.called) =>
        /\ precursor_window.some
        /\ precursor_window.start = CrestTime - ObsDays(5)
        /\ precursor_window.total_rise_ft = 65
        /\ precursor_window.average_rise_rate_ft_per_day.num > 0

\* C14: detect_precursor_window returns None when no observation is the
\* threshold or more below the peak; a window it returns starts at an
\* observation that is the threshold or more below the peak, lies before
\* the peak observation, and is the earliest of its unbroken run (the staged
\* observation before it, if any, is less than the threshold below the peak).
C14_BackwardScanFromPeak ==
    precursor_window.called =>
        /\ Crossing = {} => ~precursor_window.some
        /\ precursor_window.some =>
             \E s \in Crossing :
                /\ observations[s].timestamp = precursor_window.start
                /\ \E p \in Staged : RiseToPeak(p) = 0 /\ s < p
                /\ \A q \in Staged :
                      (q < s /\ \A k \in Staged : ~(q < k /\ k < s)) => q \notin Crossing


(***************************************************************************)

\* The index of the observation a returned window starts at.
WindowStart ==
    CHOOSE s \in 1..Len(observations) :
        observations[s].timestamp = precursor_window.start

\* The consecutive pairs (i, i + 1) of staged observations in the window.
WindowPairs ==
    {i \in WindowStart..(Len(observations) - 1) : {i, i + 1} \subseteq Staged}

\* The rise from observation i to the next one in tenths of a foot per day,
\* over the minutes between them.
PairRate(i) ==
    Rate((observations[i + 1].stage_ft - observations[i].stage_ft)
            * HoursPerDay * MinutesPerHour,
         observations[i + 1].timestamp - observations[i].timestamp)

SameRate(a, b) == a.num * b.den = b.num * a.den

\* C27: the maximum rise rate of a returned window is the largest rate in
\* feet per day over the consecutive pairs of staged observations of the
\* window, whatever the time between the two observations (it is 0 when no
\* pair rises).
C27_MaxRateOverEveryPair ==
    (precursor_window.called /\ precursor_window.some) =>
        LET max_rise_rate == precursor_window.max_rise_rate_ft_per_day
        IN  /\ \A i \in WindowPairs : MaxRate(max_rise_rate, PairRate(i)) = max_rise_rate
            /\ \/ SameRate(max_rise_rate, ZeroRate)
               \/ \E i \in WindowPairs : SameRate(max_rise_rate, PairRate(i))


(* The staleness cache: MonitoringCache                                    *)
(***************************************************************************)

\* The times of this section are in seconds.
SecondsPerMinute == 60

Minutes(n) == n * SecondsPerMinute

\* chrono::Duration::num_minutes of a duration in seconds: whole minutes,
\* rounded toward zero.
num_minutes(d) ==
    IF d >= 0 THEN d \div SecondsPerMinute ELSE -((-d) \div SecondsPerMinute)

SiteUnknown == "05570000"

\* The time of the latest reading in the rows of monitoring_state.
CachedReadingTime == Minutes(100)

\* The time of the latest reading that a poll records.
PolledReadingTime == CachedReadingTime + Minutes(30)

\* StationStatus::from_str.
StationStatus(status) ==
    IF status \in {"active", "degraded", "offline"} THEN status ELSE "unknown"

\* The entry refresh_from_db builds from a row.
StationCache(latest_reading_time, staleness_threshold_minutes, status) ==
    [present |-> TRUE, latest_reading_time |-> latest_reading_time,
     staleness_threshold_minutes |-> staleness_threshold_minutes,
     status |-> StationStatus(status)]

\* The columns of a row of usgs_raw.monitoring_state that the cache reads.
StateRow(site_code, latest_reading_time) ==
    [latest_reading_time |-> latest_reading_time,
     staleness_threshold_minutes |-> 60,
     status |-> IF site_code = SiteKingston THEN "active" ELSE "paused"]

CacheKeys == {<<SiteKingston, PARAM_DISCHARGE>>, <<SitePeoria, PARAM_DISCHARGE>>}

\* The rows of usgs_raw.monitoring_state when the process starts.
CacheRows ==
    UNION {{f \in [keys -> {StateRow(SiteKingston, t) : t \in {NULL, CachedReadingTime}}
                           \cup {StateRow(SitePeoria, t) : t \in {NULL, CachedReadingTime}}] :
              \A key \in keys : f[key].status = StateRow(key[1], NULL).status} :
           keys \in SUBSET CacheKeys}

\* MonitoringCache::get.
get(c, site_code, parameter_code) ==
    IF <<site_code, parameter_code>> \in DOMAIN c
    THEN c[<<site_code, parameter_code>>]
    ELSE NoEntry

\* An is_stale that reports what it does not know as fresh.
IsStaleUnknownFresh(c, site_code, parameter_code, at) ==
    LET cached == get(c, site_code, parameter_code)
    IN  /\ cached.present
        /\ cached.latest_reading_time # NULL
        /\ num_minutes(at - cached.latest_reading_time)
              > cached.staleness_threshold_minutes

\* MonitoringCache::is_stale.
is_stale(c, site_code, parameter_code, at) ==
    LET cached == get(c, site_code, parameter_code)
    IN  IF cached.present /\ cached.latest_reading_time # NULL
        THEN num_minutes(at - cached.latest_reading_time)
                > cached.staleness_threshold_minutes
        ELSE TRUE

\* A refresh that inserts the rows without clearing the cache first.
RefreshWithoutClear(c, rows) ==
    [key \in DOMAIN c \cup DOMAIN rows |->
        IF key \in DOMAIN rows
        THEN StationCache(rows[key].latest_reading_time,
                          rows[key].staleness_threshold_minutes, rows[key].status)
        ELSE c[key]]

\* refresh_from_db after its query returned `rows`: the cache is cleared and
\* gets one entry for each row.
refresh_from_db(c, rows) ==
    [key \in DOMAIN rows |->
        StationCache(rows[key].latest_reading_time,
                     rows[key].staleness_threshold_minutes, rows[key].status)]

\* A refresh that clears the cache before it runs its query.
ClearBeforeQuery(c, query_ok, rows) ==
    IF query_ok THEN refresh_from_db(c, rows) ELSE EmptyCache

\* refresh_from_db with the outcome of its query: `client.query(..)?`
\* returns the error before the cache is cleared.
QueryThenReload(c, query_ok, rows) ==
    IF query_ok THEN refresh_from_db(c, rows) ELSE c

\* refresh_from_db: a failed query leaves the cache as it is.
RefreshFromDb ==
    /\ \E query_ok \in BOOLEAN :
         /\ cache' = QueryThenReload(cache, query_ok, state_rows)
         /\ cache_log' = [NoCacheEvent EXCEPT
                            !.last = IF query_ok THEN "refresh_ok" ELSE "refresh_err",
                            !.cached_before = DOMAIN cache]
    /\ UNCHANGED <<stale_check, state_rows>>
    /\ UNCHANGED <<dbVars, clockVars, storeVars, ingestVars, pollVars, backfillVars,
                   analysisVars, parseVars, backwaterVars, severityVars, reanalysisVars, daemonVars, toolVars>>

\* A poll of a station by the daemon: update_monitoring_state after a
\* successful poll, record_failure after a failed one, both upserts of the
\* row of the station.  The cache is not written.
PollRecorded ==
    /\ \E site_code \in {SiteKingston, SitePeoria}, success \in BOOLEAN,
          last_reading_time \in {NULL, PolledReadingTime} :
         LET key == <<site_code, PARAM_DISCHARGE>>
             time == IF success THEN last_reading_time
                     ELSE IF key \in DOMAIN state_rows
                     THEN state_rows[key].latest_reading_time
                     ELSE NULL
         IN  /\ ~success => last_reading_time = NULL
             /\ state_rows' =
                   [k \in DOMAIN state_rows \cup {key} |->
                      IF k = key THEN StateRow(site_code, time) ELSE state_rows[k]]
             /\ cache_log' =
                   [last |-> IF success THEN "poll_ok" ELSE "poll_err",
                    site_code |-> site_code, latest_reading_time |-> time,
                    cached_before |-> {}]
    /\ UNCHANGED <<cache, stale_check>>
    /\ UNCHANGED <<dbVars, clockVars, storeVars, ingestVars, pollVars, backfillVars,
                   analysisVars, parseVars, backwaterVars, severityVars, reanalysisVars, daemonVars, toolVars>>

\* A row of usgs_raw.monitoring_state is deleted by hand.
RowDeleted ==
    /\ \E key \in DOMAIN state_rows :
         state_rows' = [k \in DOMAIN state_rows \ {key} |-> state_rows[k]]
    /\ cache_log' = NoCacheEvent
    /\ UNCHANGED <<cache, stale_check>>
    /\ UNCHANGED <<dbVars, clockVars, storeVars, ingestVars, pollVars, backfillVars,
                   analysisVars, parseVars, backwaterVars, severityVars, reanalysisVars, daemonVars, toolVars>>

\* The `now` a caller passes to is_stale: 90 seconds before the cached
\* reading, and 10, 60, 60.5, 61 and 90 minutes after it.
StaleCheckTimes ==
    {CachedReadingTime - 90, CachedReadingTime + Minutes(10),
     CachedReadingTime + Minutes(60), CachedReadingTime + Minutes(60) + 30,
     CachedReadingTime + Minutes(61), CachedReadingTime + Minutes(90)}

IsStale ==
    /\ \E site_code \in {SiteKingston, SitePeoria, SiteUnknown},
          parameter_code \in {PARAM_DISCHARGE, PARAM_STAGE},
          at \in StaleCheckTimes :
         stale_check' =
            [called |-> TRUE, site_code |-> site_code,
             parameter_code |-> parameter_code, at |-> at,
             cached |-> get(cache, site_code, parameter_code),
             stale |-> is_stale(cache, site_code, parameter_code, at),
             after_poll |-> /\ cache_log.last = "poll_ok"
                            /\ cache_log.site_code = site_code
                            /\ parameter_code = PARAM_DISCHARGE,
             polled_time |-> cache_log.latest_reading_time]
    /\ UNCHANGED <<cache, state_rows, cache_log>>
    /\ UNCHANGED <<dbVars, clockVars, storeVars, ingestVars, pollVars, backfillVars,
                   analysisVars, parseVars, backwaterVars, severityVars, reanalysisVars, daemonVars, toolVars>>

InitCache ==
    /\ gauge_readings = {}
    /\ InitClock
    /\ InitStoreVars
    /\ InitIngestVars
    /\ InitPollVars
    /\ InitBackfillVars
    /\ InitAnalysisVars
    /\ cache = EmptyCache
    /\ stale_check = NoStaleCheck
    /\ state_rows \in CacheRows
    /\ cache_log = NoCacheEvent
    /\ InitParseVars
    /\ InitBackwaterVars
    /\ InitSeverityVars
    /\ InitReanalysisVars
    /\ InitDaemonVars
    /\ InitToolVars

NextCache == RefreshFromDb \/ PollRecorded \/ RowDeleted \/ IsStale

SpecCache == InitCache /\ [][NextCache]_vars

\* The age, in seconds, of the cached reading at the `now` of the last
\* is_stale call.
CheckedAge == stale_check.at - stale_check.cached.latest_reading_time

\* C15 (as stated): is_stale is true for an entity absent from the cache,
\* and for a cached entity with a last reading it is true exactly when the
\* age of that reading at the given now is above the threshold.
C15_StaleExactlyWhenOlder ==
    stale_check.called =>
        /\ ~stale_check.cached.present => stale_check.stale
        /\ (stale_check.cached.present /\ stale_check.cached.latest_reading_time # NULL) =>
             (stale_check.stale <=>
                CheckedAge > Minutes(stale_check.cached.staleness_threshold_minutes))

\* C15 (amended): is_stale is true for an entity absent from the cache and
\* for a cached entity without a last reading; for a cached entity with a
\* last reading it is true exactly when the age of that reading in whole
\* minutes (the seconds dropped) is above the threshold.
C15_StaleByWholeMinutes ==
    stale_check.called =>
        /\ ~stale_check.cached.present => stale_check.stale
        /\ (stale_check.cached.present /\ stale_check.cached.latest_reading_time = NULL)
              => stale_check.stale
        /\ (stale_check.cached.present /\ stale_check.cached.latest_reading_time # NULL) =>
             (stale_check.stale <=>
                num_minutes(CheckedAge) > stale_check.cached.staleness_threshold_minutes)

\* A cached reading 60 minutes and 30 seconds old against a threshold of 60
\* minutes was reported fresh.
C15_Witness ==
    /\ stale_check.called
    /\ stale_check.cached.present
    /\ stale_check.cached.latest_reading_time # NULL
    /\ CheckedAge = Minutes(60) + 30
    /\ stale_check.cached.staleness_threshold_minutes = 60
    /\ ~stale_check.stale

\* C25: a staleness query issued right after a successful poll of an entity,
\* with no refresh in between, sees in the cache the latest-reading time that
\* the poll recorded for that entity.
C25_QueryAfterPollSeesPolledTime ==
    (stale_check.called /\ stale_check.after_poll) =>
        /\ stale_check.cached.present
        /\ stale_check.cached.latest_reading_time = stale_check.polled_time

\* C26: after a successful refresh the cache holds exactly one entry for each
\* row of the monitoring state, with the values of that row, and no entry for
\* a key that has no row.
C26_RefreshReloadsWholeCache ==
    cache_log.last = "refresh_ok" =>
        /\ DOMAIN cache = DOMAIN state_rows
        /\ \A key \in DOMAIN state_rows :
             /\ cache[key].present
             /\ cache[key].latest_reading_time = state_rows[key].latest_reading_time
             /\ cache[key].staleness_threshold_minutes =
                   state_rows[key].staleness_threshold_minutes
             /\ state_rows[key].status = "active" => cache[key].status = "active"
             /\ state_rows[key].status = "paused" => cache[key].status = "unknown"

\* A successful refresh dropped an entry whose row was gone and kept another
\* one with the time a poll had recorded.
C26_Witness ==
    /\ cache_log.last = "refresh_ok"
    /\ cache_log.cached_before \ DOMAIN cache # {}
    /\ \E key \in DOMAIN cache : cache[key].latest_reading_time = PolledReadingTime

\* C39: a call of refresh_from_db whose query failed leaves the cache with
\* the entries it had before the call, each unchanged.
C39_FailedRefreshKeepsCache ==
    [][cache_log'.last = "refresh_err" => cache' = cache]_vars

\* A refresh failed on a cache that held a polled reading and an entry
\* whose row is gone from the table.
C39_Witness ==
    /\ cache_log.last = "refresh_err"
    /\ cache_log.cached_before = DOMAIN cache
    /\ DOMAIN cache \ DOMAIN state_rows # {}
    /\ \E key \in DOMAIN cache : cache[key].latest_reading_time = PolledReadingTime


(***************************************************************************)
(* The USGS adapter: parse_iv_response and parse_dv_response               *)
(***************************************************************************)

\* Values are in hundredths of the unit of the series.
Hundredths == 100

\* Variable.noDataValue of the series: -999999.0.
NoDataValue == -(999999 * Hundredths)

\* The 0.1 of `(value - no_data_value).abs() < 0.1`, in hundredths.
SentinelTolerance == 10

MaxSeries == 2

MaxValues == 2

\* ValueEntry.value is text.
ValueTexts == {"18.42", "-999999", "abc"}

\* str::parse::<f64>.
ParseF64(text) ==
    CASE text = "18.42"   -> [ok |-> TRUE, v |-> 1842]
      [] text = "-999999" -> [ok |-> TRUE, v |-> -(999999 * Hundredths)]
      [] OTHER            -> [ok |-> FALSE, v |-> 0]

Abs(x) == IF x < 0 THEN -x ELSE x

\* A check that takes no value for the sentinel.
NeverSentinel(value, no_data_value) == FALSE

\* (value - no_data_value).abs() < 0.1
IsSentinel(value, no_data_value) == Abs(value - no_data_value) < SentinelTolerance

\* The (siteCode, variableCode) of the series of a response, by position.
SeriesIds ==
    <<[site_code |-> SiteKingston, parameter_code |-> PARAM_DISCHARGE],
      [site_code |-> SiteKingston, parameter_code |-> PARAM_STAGE],
      [site_code |-> SitePeoria, parameter_code |-> PARAM_STAGE]>>

\* Values.value: entries in the order of their dateTime, which is modelled by
\* the position of the entry.
ValueLists(max_values) ==
    UNION {[1..n -> ValueTexts] : n \in 0..max_values}

ValueEntries(texts) ==
    [j \in 1..Len(texts) |-> [value |-> texts[j], date_time |-> j]]

\* A timeSeries entry with all its arrays.
Series(id, texts) ==
    [site_code |-> <<id.site_code>>, variable_code |-> <<id.parameter_code>>,
     no_data_value |-> NoDataValue, has_values |-> TRUE,
     values |-> <<[value |-> ValueEntries(texts)]>>]

\* The shapes of the i-th timeSeries entry: complete, with `siteCode: []`,
\* with `values: []`, and without the field `values`.  The last series of
\* SeriesIds has at most one value.
SeriesShapes(i) ==
    {Series(SeriesIds[i], texts) :
        texts \in ValueLists(IF i < Len(SeriesIds) THEN MaxValues ELSE 1)}
    \cup {[Series(SeriesIds[i], <<"18.42">>) EXCEPT !.site_code = <<>>],
          [Series(SeriesIds[i], <<"18.42">>) EXCEPT !.values = <<>>],
          [Series(SeriesIds[i], <<"18.42">>) EXCEPT !.has_values = FALSE, !.values = <<>>]}

\* The lists of n timeSeries entries.
RECURSIVE SeriesLists(_)
SeriesLists(n) ==
    IF n = 0 THEN {<<>>}
    ELSE {Append(ts, series) : ts \in SeriesLists(n - 1), series \in SeriesShapes(n)}

\* The bodies: no JSON, JSON without value.timeSeries, and JSON with up to
\* max_series timeSeries entries.
Responses(max_series) ==
    {NoResponse,
     [syntax_ok |-> TRUE, has_time_series |-> FALSE, time_series |-> <<>>]}
    \cup
    {[syntax_ok |-> TRUE, has_time_series |-> TRUE, time_series |-> ts] :
        ts \in UNION {SeriesLists(n) : n \in 0..max_series}}

\* serde_json::from_str::<IvResponse>: every field of the structs is required.
Deserializes(json) ==
    /\ json.syntax_ok
    /\ json.has_time_series
    /\ \A i \in 1..Len(json.time_series) : json.time_series[i].has_values

ParseError == [kind |-> "ParseError", readings |-> <<>>]

NoDataAvailable == [kind |-> "NoDataAvailable", readings |-> <<>>]

OkReadings(readings) == [kind |-> "Ok", readings |-> readings]

GaugeReading(series, entry) ==
    [site_code |-> series.site_code[1], parameter_code |-> series.variable_code[1],
     value |-> ParseF64(entry.value).v, datetime |-> entry.date_time]

\* The loop of parse_iv_response over the timeSeries entries, from the i-th.
RECURSIVE IvSeriesLoop(_, _, _)
IvSeriesLoop(time_series, i, readings) ==
    IF i > Len(time_series)
    THEN IF readings = <<>> THEN NoDataAvailable ELSE OkReadings(readings)
    ELSE
      LET series == time_series[i]
      IN  IF series.site_code = <<>> \/ series.variable_code = <<>>
               \/ series.values = <<>>
          THEN ParseError
          ELSE
            LET entries == series.values[1].value
                latest == entries[Len(entries)]
            IN  IF entries = <<>>
                THEN IvSeriesLoop(time_series, i + 1, readings)
                ELSE IF ~ParseF64(latest.value).ok
                THEN ParseError
                ELSE IF IsSentinel(ParseF64(latest.value).v, series.no_data_value)
                THEN IvSeriesLoop(time_series, i + 1, readings)
                ELSE IvSeriesLoop(time_series, i + 1,
                                  Append(readings, GaugeReading(series, latest)))

parse_iv_response(json) ==
    IF ~Deserializes(json) THEN ParseError
    ELSE IF json.time_series = <<>> THEN NoDataAvailable
    ELSE IvSeriesLoop(json.time_series, 1, <<>>)

\* The inner loop of parse_dv_response over the entries of a series.
RECURSIVE DvEntryLoop(_, _, _, _)
DvEntryLoop(series, entries, j, readings) ==
    IF j > Len(entries) THEN readings
    ELSE IF ~ParseF64(entries[j].value).ok
    THEN DvEntryLoop(series, entries, j + 1, readings)
    ELSE IF IsSentinel(ParseF64(entries[j].value).v, series.no_data_value)
    THEN DvEntryLoop(series, entries, j + 1, readings)
    ELSE DvEntryLoop(series, entries, j + 1,
                     Append(readings, GaugeReading(series, entries[j])))

\* The loop of parse_dv_response over the timeSeries entries, from the i-th.
RECURSIVE DvSeriesLoop(_, _, _)
DvSeriesLoop(time_series, i, all_readings) ==
    IF i > Len(time_series)
    THEN IF all_readings = <<>> THEN NoDataAvailable ELSE OkReadings(all_readings)
    ELSE
      LET series == time_series[i]
      IN  IF series.site_code = <<>> \/ series.variable_code = <<>>
               \/ series.values = <<>>
          THEN ParseError
          ELSE DvSeriesLoop(time_series, i + 1,
                            DvEntryLoop(series, series.values[1].value, 1,
                                        all_readings))

parse_dv_response(json) ==
    IF ~Deserializes(json) THEN ParseError
    ELSE IF json.time_series = <<>> THEN NoDataAvailable
    ELSE DvSeriesLoop(json.time_series, 1, <<>>)

Parsed(fn, result) ==
    [called |-> TRUE, fn |-> fn, kind |-> result.kind, readings |-> result.readings]

ParseIvResponse ==
    /\ parsed' = Parsed("iv", parse_iv_response(response))
    /\ UNCHANGED response
    /\ UNCHANGED <<dbVars, clockVars, storeVars, ingestVars, pollVars, backfillVars,
                   analysisVars, cacheVars, backwaterVars, severityVars, reanalysisVars, daemonVars, toolVars>>

ParseDvResponse ==
    /\ parsed' = Parsed("dv", parse_dv_response(response))
    /\ UNCHANGED response
    /\ UNCHANGED <<dbVars, clockVars, storeVars, ingestVars, pollVars, backfillVars,
                   analysisVars, cacheVars, backwaterVars, severityVars, reanalysisVars, daemonVars, toolVars>>

InitParse ==
    /\ gauge_readings = {}
    /\ InitClock
    /\ InitStoreVars
    /\ InitIngestVars
    /\ InitPollVars
    /\ InitBackfillVars
    /\ InitAnalysisVars
    /\ InitCacheVars
    /\ response \in Responses(MaxSeries)
    /\ parsed = NotParsed
    /\ InitBackwaterVars
    /\ InitSeverityVars
    /\ InitReanalysisVars
    /\ InitDaemonVars
    /\ InitToolVars

NextParse == ParseIvResponse \/ ParseDvResponse

SpecParse == InitParse /\ [][NextParse]_vars


\* The timeSeries entries of the parsed body.
TimeSeries == response.time_series

\* A timeSeries entry with all its arrays.
WellFormed(series) ==
    /\ series.has_values
    /\ series.site_code # <<>>
    /\ series.variable_code # <<>>
    /\ series.values # <<>>

EntriesOf(series) == IF WellFormed(series) THEN series.values[1].value ELSE <<>>

\* The entry holds a number that is not the sentinel of its series.
ValidEntry(series, entry) ==
    /\ ParseF64(entry.value).ok
    /\ ~IsSentinel(ParseF64(entry.value).v, series.no_data_value)

SentinelEntry(series, entry) ==
    /\ ParseF64(entry.value).ok
    /\ IsSentinel(ParseF64(entry.value).v, series.no_data_value)

ValidPositions(series) ==
    {j \in 1..Len(EntriesOf(series)) : ValidEntry(series, EntriesOf(series)[j])}

\* The most recent non-sentinel entry of a series.
LatestValid(series) == EntriesOf(series)[Max(ValidPositions(series))]

\* The positions of the Readings returned for the i-th series.
ReadingsFor(i) ==
    {k \in 1..Len(parsed.readings) :
        /\ parsed.readings[k].site_code = SeriesIds[i].site_code
        /\ parsed.readings[k].parameter_code = SeriesIds[i].parameter_code}

\* A body of well-formed series whose values are all numbers.
CleanResponse ==
    /\ Deserializes(response)
    /\ \A i \in 1..Len(TimeSeries) :
         /\ WellFormed(TimeSeries[i])
         /\ \A j \in 1..Len(EntriesOf(TimeSeries[i])) :
              ParseF64(EntriesOf(TimeSeries[i])[j].value).ok

\* C16: for a body of well-formed series, parse_iv_response returns exactly
\* one Reading for each series that has a non-sentinel value, and it is the
\* most recent non-sentinel value of that series.
C16_LatestNonSentinelPerSeries ==
    (parsed.called /\ parsed.fn = "iv" /\ CleanResponse) =>
        \A i \in 1..Len(TimeSeries) :
            ValidPositions(TimeSeries[i]) # {} =>
                /\ parsed.kind = "Ok"
                /\ Cardinality(ReadingsFor(i)) = 1
                /\ \A k \in ReadingsFor(i) :
                     parsed.readings[k]
                        = GaugeReading(TimeSeries[i], LatestValid(TimeSeries[i]))

\* The text of the upstream sentinel for missing data.
SentinelText == "-999999"

\* C17: no Reading returned by parse_iv_response or parse_dv_response holds
\* the sentinel; each Reading holds the number of an entry of its series
\* whose text is not the sentinel, so a sentinel entry is dropped and not
\* turned into zero or another value.
C17_NoSentinelReading ==
    parsed.called =>
        \A k \in 1..Len(parsed.readings) :
            /\ parsed.readings[k].value # NoDataValue
            /\ parsed.readings[k].value # 0
            /\ \E i \in 1..Len(TimeSeries) :
                 /\ k \in ReadingsFor(i)
                 /\ \E j \in 1..Len(EntriesOf(TimeSeries[i])) :
                      /\ EntriesOf(TimeSeries[i])[j].value # SentinelText
                      /\ parsed.readings[k]
                            = GaugeReading(TimeSeries[i], EntriesOf(TimeSeries[i])[j])

\* parse_dv_response returned the one number of a series whose other entry
\* is the sentinel.
C17_Witness ==
    /\ parsed.called
    /\ parsed.fn = "dv"
    /\ parsed.kind = "Ok"
    /\ Len(parsed.readings) = 1
    /\ Len(TimeSeries) = 1
    /\ \E j \in 1..Len(EntriesOf(TimeSeries[1])) :
         SentinelEntry(TimeSeries[1], EntriesOf(TimeSeries[1])[j])
    /\ ValidPositions(TimeSeries[1]) # {}

\* The body is JSON and no series of it holds a non-sentinel number: arrays
\* are missing, value lists are empty, or the values are the sentinel.
NothingToRead ==
    /\ response.syntax_ok
    /\ \A i \in 1..Len(TimeSeries) :
         /\ ValidPositions(TimeSeries[i]) = {}
         /\ \A j \in 1..Len(EntriesOf(TimeSeries[i])) :
              SentinelEntry(TimeSeries[i], EntriesOf(TimeSeries[i])[j])

\* C18: a body with missing arrays, with empty value lists or with only the
\* sentinel resolves to NoDataAvailable.
C18_NothingToReadIsNoData ==
    (parsed.called /\ NothingToRead) => parsed.kind = "NoDataAvailable"

\* C19: when a series of the body is malformed or holds a text that is no
\* number, the Readings of the other series are still returned: every
\* well-formed series of numbers whose latest value is not the sentinel has
\* that value among the Readings.
C19_OtherSeriesStillReturned ==
    (parsed.called /\ response.syntax_ok /\ response.has_time_series) =>
        \A i \in 1..Len(TimeSeries) :
            LET series == TimeSeries[i]
                entries == EntriesOf(series)
            IN  (/\ WellFormed(series)
                 /\ entries # <<>>
                 /\ \A j \in 1..Len(entries) : ValidEntry(series, entries[j]))
                => /\ parsed.kind = "Ok"
                   /\ \E k \in ReadingsFor(i) :
                        parsed.readings[k] = GaugeReading(series, entries[Len(entries)])

\* The Readings of the valid entries of a series from its j-th entry on, in
\* the order of the entries.
RECURSIVE ValidReadings(_, _)
ValidReadings(series, j) ==
    IF j > Len(EntriesOf(series)) THEN <<>>
    ELSE IF ValidEntry(series, EntriesOf(series)[j])
    THEN <<GaugeReading(series, EntriesOf(series)[j])>> \o ValidReadings(series, j + 1)
    ELSE ValidReadings(series, j + 1)

\* The Readings of the valid entries of all series from the i-th series on.
RECURSIVE AllValidReadings(_)
AllValidReadings(i) ==
    IF i > Len(TimeSeries) THEN <<>>
    ELSE ValidReadings(TimeSeries[i], 1) \o AllValidReadings(i + 1)

\* C32: parse_dv_response returns the Readings of every entry that holds a
\* number other than the sentinel, of every series, in the order received;
\* entries that are not numbers are passed over and the rest is returned.
C32_EveryValidValueInOrder ==
    (parsed.called /\ parsed.fn = "dv" /\ Deserializes(response)) =>
        /\ parsed.readings = AllValidReadings(1)
        /\ AllValidReadings(1) # <<>> => parsed.kind = "Ok"

\* C32 for bodies in which every series has its arrays.
EveryValidValueOfWellFormed ==
    (\A i \in 1..Len(TimeSeries) : WellFormed(TimeSeries[i]))
        => C32_EveryValidValueInOrder


(***************************************************************************)
(* Backwater detection and its severity ladder                             *)
(***************************************************************************)

\* Stages and differentials of this section are in tenths of a foot.

\* The threshold_ft of the callers of detect_backwater: 2.0 ft.
BackwaterThreshold == 20

\* A detection that takes a differential equal to the threshold as backwater.
DetectFromThreshold(mississippi_stage_ft, illinois_stage_ft, threshold_ft) ==
    (mississippi_stage_ft - illinois_stage_ft) >= threshold_ft

detect_backwater(mississippi_stage_ft, illinois_stage_ft, threshold_ft) ==
    (mississippi_stage_ft - illinois_stage_ft) > threshold_ft

\* A ladder whose bands include their lower bound.
ClassifyFromBound(differential_ft) ==
    IF differential_ft >= 100 THEN "extreme"
    ELSE IF differential_ft >= 50 THEN "major"
    ELSE IF differential_ft >= 20 THEN "moderate"
    ELSE IF differential_ft >= 5 THEN "minor"
    ELSE "none"

classify_backwater_severity(differential_ft) ==
    IF differential_ft > 100 THEN "extreme"
    ELSE IF differential_ft > 50 THEN "major"
    ELSE IF differential_ft > 20 THEN "moderate"
    ELSE IF differential_ft > 5 THEN "minor"
    ELSE "none"

\* The ladder of the detect_backwater binary.
MainSeverity(differential) ==
    IF differential > 100 THEN "EXTREME"
    ELSE IF differential > 50 THEN "MAJOR"
    ELSE IF differential > 20 THEN "MODERATE"
    ELSE "MINOR"

\* The latest stage of the boundary river and of the monitored river.
BoundaryStages ==
    {4300, 4303, 4305, 4306, 4310, 4320, 4321, 4330, 4350, 4351, 4370, 4400,
     4401, 4420}

MonitoredStages == {4300, 4320, 4350}

\* detect_backwater and classify_backwater_severity on the two stages.
ClassifyBackwater ==
    /\ backwater' =
          [called |-> TRUE, fn |-> "cwms",
           differential |-> river_stages.boundary - river_stages.monitored,
           detected |-> detect_backwater(river_stages.boundary, river_stages.monitored,
                                         BackwaterThreshold),
           severity |-> classify_backwater_severity(river_stages.boundary - river_stages.monitored)]
    /\ UNCHANGED river_stages
    /\ UNCHANGED <<dbVars, clockVars, storeVars, ingestVars, pollVars, backfillVars,
                   analysisVars, cacheVars, parseVars, severityVars, reanalysisVars, daemonVars, toolVars>>

\* The backwater analysis of the detect_backwater binary.
BackwaterAnalysis ==
    /\ LET differential == river_stages.boundary - river_stages.monitored
       IN  backwater' =
              [called |-> TRUE, fn |-> "main", differential |-> differential,
               detected |-> differential > BackwaterThreshold,
               severity |-> MainSeverity(differential)]
    /\ UNCHANGED river_stages
    /\ UNCHANGED <<dbVars, clockVars, storeVars, ingestVars, pollVars, backfillVars,
                   analysisVars, cacheVars, parseVars, severityVars, reanalysisVars, daemonVars, toolVars>>

InitBackwater ==
    /\ gauge_readings = {}
    /\ InitClock
    /\ InitStoreVars
    /\ InitIngestVars
    /\ InitPollVars
    /\ InitBackfillVars
    /\ InitAnalysisVars
    /\ InitCacheVars
    /\ InitParseVars
    /\ river_stages \in [boundary : BoundaryStages, monitored : MonitoredStages]
    /\ backwater = NotClassified
    /\ InitSeverityVars
    /\ InitReanalysisVars
    /\ InitDaemonVars
    /\ InitToolVars

NextBackwater == ClassifyBackwater \/ BackwaterAnalysis

SpecBackwater == InitBackwater /\ [][NextBackwater]_vars

\* The stages of the example: boundary 435.0 ft, monitored 430.0 ft.
ExampleStages == river_stages = [boundary |-> 4350, monitored |-> 4300]

\* C20 (as stated): the differential of boundary 435.0 and monitored 430.0,
\* 5.0 ft, is classified in the major band.
C20_FiveFeetIsMajor ==
    (backwater.called /\ ExampleStages) =>
        backwater.severity \in {"major", "MAJOR"}

\* C20 (amended): each band of the ladder starts above its lower bound
\* (none up to 0.5 ft, minor above 0.5, moderate above 2.0, major above 5.0,
\* extreme above 10.0), so the differential of boundary 435.0 and monitored
\* 430.0, 5.0 ft, is backwater of the moderate band.
C20_FiveFeetIsModerate ==
    backwater.called =>
        /\ backwater.differential = river_stages.boundary - river_stages.monitored
        /\ backwater.detected <=> backwater.differential > BackwaterThreshold
        /\ backwater.fn = "cwms" =>
             /\ backwater.severity = "extreme" <=> backwater.differential > 100
             /\ backwater.severity = "major" <=>
                  (backwater.differential > 50 /\ backwater.differential <= 100)
             /\ backwater.severity = "moderate" <=>
                  (backwater.differential > 20 /\ backwater.differential <= 50)
             /\ backwater.severity = "minor" <=>
                  (backwater.differential > 5 /\ backwater.differential <= 20)
             /\ backwater.severity = "none" <=> backwater.differential <= 5
        /\ ExampleStages =>
             /\ backwater.detected
             /\ backwater.severity \in {"moderate", "MODERATE"}

\* The example stages were classified by classify_backwater_severity.
C20_Witness ==
    /\ backwater.called
    /\ backwater.fn = "cwms"
    /\ ExampleStages
    /\ backwater.differential = 50
    /\ backwater.severity = "moderate"


\* C21: detect_backwater flags backwater exactly when the boundary stage
\* less the monitored stage is strictly above the threshold of 2.0 ft:
\* 435.0 against 430.0 is backwater, 430.0 against 435.0 is not, and a
\* differential equal to or below the threshold is not.
C21_BackwaterAboveThreshold ==
    (backwater.called /\ backwater.fn = "cwms") =>
        /\ backwater.detected <=>
              river_stages.boundary - river_stages.monitored > BackwaterThreshold
        /\ river_stages = [boundary |-> 4350, monitored |-> 4300] => backwater.detected
        /\ river_stages = [boundary |-> 4300, monitored |-> 4350] => ~backwater.detected
        /\ river_stages.boundary - river_stages.monitored <= BackwaterThreshold
              => ~backwater.detected

\* A differential equal to the threshold, 432.0 against 430.0, was not
\* flagged by detect_backwater.
C21_Witness ==
    /\ backwater.called
    /\ backwater.fn = "cwms"
    /\ river_stages = [boundary |-> 4320, monitored |-> 4300]
    /\ ~backwater.detected


(***************************************************************************)
(* Flood severity of a peak stage: FloodSeverity::from_stage               *)
(***************************************************************************)

\* A classification whose bands start above their threshold.
FromStageAbove(peak_stage_ft, flood_stage_ft, moderate_stage_ft, major_stage_ft) ==
    IF peak_stage_ft > major_stage_ft THEN "major"
    ELSE IF peak_stage_ft > moderate_stage_ft THEN "moderate"
    ELSE IF peak_stage_ft > flood_stage_ft THEN "flood"
    ELSE "no_event"

\* FloodSeverity::from_stage, with None as "no_event".
from_stage(peak_stage_ft, flood_stage_ft, moderate_stage_ft, major_stage_ft) ==
    IF peak_stage_ft >= major_stage_ft THEN "major"
    ELSE IF peak_stage_ft >= moderate_stage_ft THEN "moderate"
    ELSE IF peak_stage_ft >= flood_stage_ft THEN "flood"
    ELSE "no_event"

\* Peak stages and threshold stages, in tenths of a foot.
PeakStages == {175, 180, 185, 199, 200, 205, 219, 220, 240}

ThresholdStages == {160, 180, 200, 220, 240}

\* The thresholds of a station: flood < moderate < major.
FloodThresholds ==
    {t \in [flood : ThresholdStages, moderate : ThresholdStages, major : ThresholdStages] :
        t.flood < t.moderate /\ t.moderate < t.major}

\* identify_flood_events rates the peak stage of a record.
RateSeverity ==
    /\ flood_severity' =
          [called |-> TRUE,
           severity |-> from_stage(peak_record.peak_stage_ft, peak_record.flood,
                                   peak_record.moderate, peak_record.major)]
    /\ UNCHANGED peak_record
    /\ UNCHANGED <<dbVars, clockVars, storeVars, ingestVars, pollVars, backfillVars,
                   analysisVars, cacheVars, parseVars, backwaterVars, reanalysisVars, daemonVars, toolVars>>

InitSeverity ==
    /\ gauge_readings = {}
    /\ InitClock
    /\ InitStoreVars
    /\ InitIngestVars
    /\ InitPollVars
    /\ InitBackfillVars
    /\ InitAnalysisVars
    /\ InitCacheVars
    /\ InitParseVars
    /\ InitBackwaterVars
    /\ \E peak_stage_ft \in PeakStages, t \in FloodThresholds :
         peak_record = [peak_stage_ft |-> peak_stage_ft, flood |-> t.flood,
                        moderate |-> t.moderate, major |-> t.major]
    /\ flood_severity = NotRated
    /\ InitReanalysisVars
    /\ InitDaemonVars
    /\ InitToolVars

NextSeverity == RateSeverity

SpecSeverity == InitSeverity /\ [][NextSeverity]_vars

\* The thresholds of the example: 18.0 / 20.0 / 22.0 ft.
ExampleThresholds ==
    /\ peak_record.flood = 180
    /\ peak_record.moderate = 200
    /\ peak_record.major = 220

\* C22: the severity of a peak stage is major if the stage is at or above
\* the major threshold, else moderate if at or above the moderate one, else
\* flood if at or above the flood one, else no event; with 18.0/20.0/22.0,
\* 18.5 is flood, 20.5 moderate, 24.0 major and 17.5 no event.
C22_SeverityAtOrAboveBand ==
    flood_severity.called =>
        /\ flood_severity.severity = "major" <=>
              peak_record.peak_stage_ft >= peak_record.major
        /\ flood_severity.severity = "moderate" <=>
              /\ peak_record.peak_stage_ft >= peak_record.moderate
              /\ peak_record.peak_stage_ft < peak_record.major
        /\ flood_severity.severity = "flood" <=>
              /\ peak_record.peak_stage_ft >= peak_record.flood
              /\ peak_record.peak_stage_ft < peak_record.moderate
        /\ flood_severity.severity = "no_event" <=>
              peak_record.peak_stage_ft < peak_record.flood
        /\ ExampleThresholds =>
              /\ peak_record.peak_stage_ft = 185 => flood_severity.severity = "flood"
              /\ peak_record.peak_stage_ft = 205 => flood_severity.severity = "moderate"
              /\ peak_record.peak_stage_ft = 240 => flood_severity.severity = "major"
              /\ peak_record.peak_stage_ft = 175 => flood_severity.severity = "no_event"

\* A peak stage equal to the moderate threshold of the example was rated
\* moderate.
C22_Witness ==
    /\ flood_severity.called
    /\ ExampleThresholds
    /\ peak_record.peak_stage_ft = 200
    /\ flood_severity.severity = "moderate"


\* C23: a store call that fails part-way reports how many rows it wrote
\* before the failure: what it returns holds the number of rows by which
\* the table grew during the call.
C23_FailureReportsRowsWritten ==
    (call.op # "none" /\ ~ret.ok) =>
        ret.inserted = Cardinality(gauge_readings) - Cardinality(before)


(***************************************************************************)
(* bin/analyze_flood_events.rs: a run of the flood event analysis          *)
(***************************************************************************)

MaxAnalysisRuns == 2

\* nws.flood_events joined with nws.flood_thresholds: the historical events
\* with a crest time and a peak stage.
HistoricalEvents ==
    {[event_id |-> 1, site_code |-> SiteKingston],
     [event_id |-> 2, site_code |-> SiteKingston],
     [event_id |-> 3, site_code |-> SitePeoria]}

NoSiteFilter == "none"

\* load_historical_events: the events without a row in flood_analysis.events.
load_historical_events(table) ==
    {e \in HistoricalEvents :
        ~\E a \in table : a.source_event_id = e.event_id}

\* DELETE FROM flood_analysis.events
ClearAnalysis(table) == {}

\* The row analyze_event inserts for an event, in the run-th run.
AnalyzedEvent(event, run) ==
    [source_event_id |-> event.event_id, site_code |-> event.site_code,
     analysis_run |-> run]

\* main: with --reanalyze the derived rows are cleared; the events not yet
\* analyzed are loaded and filtered by --site-code; analyze_event inserts a
\* row for each event of `inserted`, the others have no observations or fail.
AnalyzeFloodEvents ==
    /\ reanalysis.run < MaxAnalysisRuns
    /\ \E site_filter \in {NoSiteFilter, SiteKingston, SitePeoria},
          reanalyze \in BOOLEAN :
         LET cleared == IF reanalyze
                        THEN ClearAnalysis(flood_analysis_events)
                        ELSE flood_analysis_events
             loaded == load_historical_events(cleared)
             events == IF site_filter = NoSiteFilter THEN loaded
                       ELSE {e \in loaded : e.site_code = site_filter}
             run == reanalysis.run + 1
         IN  \E inserted \in SUBSET events :
               /\ flood_analysis_events' =
                     cleared \cup {AnalyzedEvent(e, run) : e \in inserted}
               /\ reanalysis' = [called |-> TRUE, site_filter |-> site_filter,
                                 reanalyze |-> reanalyze, run |-> run,
                                 before |-> flood_analysis_events]
    /\ UNCHANGED <<dbVars, clockVars, storeVars, ingestVars, pollVars, backfillVars,
                   analysisVars, cacheVars, parseVars, backwaterVars, severityVars, daemonVars, toolVars>>

InitReanalysis ==
    /\ gauge_readings = {}
    /\ InitClock
    /\ InitStoreVars
    /\ InitIngestVars
    /\ InitPollVars
    /\ InitBackfillVars
    /\ InitAnalysisVars
    /\ InitCacheVars
    /\ InitParseVars
    /\ InitBackwaterVars
    /\ InitSeverityVars
    /\ InitReanalysisVars
    /\ InitDaemonVars
    /\ InitToolVars

NextReanalysis == AnalyzeFloodEvents

SpecReanalysis == InitReanalysis /\ [][NextReanalysis]_vars

\* C24: a run restricted to one site neither deletes nor changes the
\* derived rows of the other sites.
C24_OtherSitesKept ==
    (reanalysis.called /\ reanalysis.site_filter # NoSiteFilter) =>
        \A a \in reanalysis.before :
            a.site_code # reanalysis.site_filter => a \in flood_analysis_events


(***************************************************************************)
(* Two station polls side by side                                          *)
(***************************************************************************)

\* The two stations polled.
ParallelSites == {SiteKingston, SitePeoria}

\* What poll_station returns as Ok here: the discharge and, if there is one,
\* the stage, with a timestamp that parses or one that does not.
ParallelBatches(site) ==
    {readings \in PollBatches(site) :
        \A i \in 1..Len(readings) : readings[i].datetime \in {Rfc(now, 0), BadText}}

\* A poll that has not fetched yet.
NewTask ==
    [pc |-> "fetch", readings |-> <<>>, i |-> 0, fail_at |-> 0,
     state_fails |-> FALSE, fetch_ok |-> FALSE]

\* The other station is in the middle of its poll.
OtherUnderWay(site_code) ==
    \E other \in ParallelSites \ {site_code} :
        poll_tasks[other].pc \notin {"fetch", "done"}

Stepped(site_code) ==
    [parallel EXCEPT !.interleaved = @ \/ OtherUnderWay(site_code)]

\* The arm of poll_all_stations for one station, from the fetch to the end:
\* poll_station, then warehouse_readings? and update_monitoring_state?, or
\* record_failure?.
PollOne(db, site_code, task, at) ==
    IF ~task.fetch_ok
    THEN IF task.state_fails THEN db
         ELSE [db EXCEPT !.ms = record_failure(db.ms, site_code, at)]
    ELSE LET done == warehouse_readings(db.table, task.readings, task.fail_at)
         IN  IF ~done.ok \/ task.state_fails THEN [db EXCEPT !.table = done.table]
             ELSE [table |-> done.table,
                   ms |-> update_monitoring_state(db.ms, site_code,
                                                  LatestOf(task.readings), at)]

\* The two polls one after the other, `first` before `second`.
OneAfterTheOther(first, second) ==
    PollOne(PollOne([table |-> parallel.table, ms |-> parallel.ms],
                    first, poll_tasks[first], now),
            second, poll_tasks[second], now)

\* poll_station of a station: the request fails, or it returns readings.
\* What the store will do with the statements of this poll is drawn here.
TaskFetch ==
    /\ \E site_code \in DOMAIN poll_tasks :
         /\ poll_tasks[site_code].pc = "fetch"
         /\ \/ \E record_fails \in BOOLEAN :
                 poll_tasks' = [poll_tasks EXCEPT ![site_code] =
                     [NewTask EXCEPT !.pc = "failure", !.state_fails = record_fails]]
            \/ \E readings \in ParallelBatches(site_code), state_fails \in BOOLEAN :
                 \E fail_at \in 0..Len(readings) :
                   poll_tasks' = [poll_tasks EXCEPT ![site_code] =
                       [pc |-> "store", readings |-> readings, i |-> 1,
                        fail_at |-> fail_at, state_fails |-> state_fails,
                        fetch_ok |-> TRUE]]
         /\ parallel' = Stepped(site_code)
    /\ UNCHANGED <<gauge_readings, monitoring_state, daemon_run>>
    /\ UNCHANGED <<cwms_timeseries, asos_observations, cycle, attempted, results, last_poll>>
    /\ UNCHANGED <<clockVars, storeVars, ingestVars, backfillVars, analysisVars, cacheVars,
                   parseVars, backwaterVars, severityVars, reanalysisVars, toolVars>>

\* One pass of the loop of warehouse_readings: the datetime is parsed and
\* the row inserted; an error ends the poll of this station.
TaskStore ==
    /\ \E site_code \in DOMAIN poll_tasks :
         LET task == poll_tasks[site_code]
             reading == task.readings[task.i]
             reading_time == ParseReadingTime(reading.datetime)
         IN  /\ task.pc = "store"
             /\ IF reading_time = NULL \/ task.i = task.fail_at
                THEN /\ poll_tasks' = [poll_tasks EXCEPT ![site_code].pc = "done"]
                     /\ UNCHANGED gauge_readings
                ELSE /\ gauge_readings' =
                          InsertReading(gauge_readings, Row(reading, reading_time)).table
                     /\ poll_tasks' = [poll_tasks EXCEPT ![site_code] =
                          [task EXCEPT !.i = task.i + 1,
                                       !.pc = IF task.i = Len(task.readings)
                                              THEN "state" ELSE "store"]]
             /\ parallel' = Stepped(site_code)
    /\ UNCHANGED <<monitoring_state, daemon_run>>
    /\ UNCHANGED <<cwms_timeseries, asos_observations, cycle, attempted, results, last_poll>>
    /\ UNCHANGED <<clockVars, storeVars, ingestVars, backfillVars, analysisVars, cacheVars,
                   parseVars, backwaterVars, severityVars, reanalysisVars, toolVars>>

\* update_monitoring_state with the latest time of the readings.
TaskUpdateState ==
    /\ \E site_code \in DOMAIN poll_tasks :
         LET task == poll_tasks[site_code]
         IN  /\ task.pc = "state"
             /\ monitoring_state' =
                   IF task.state_fails THEN monitoring_state
                   ELSE update_monitoring_state(monitoring_state, site_code,
                                                LatestOf(task.readings), now)
             /\ poll_tasks' = [poll_tasks EXCEPT ![site_code].pc = "done"]
             /\ parallel' = Stepped(site_code)
    /\ UNCHANGED <<gauge_readings, daemon_run>>
    /\ UNCHANGED <<cwms_timeseries, asos_observations, cycle, attempted, results, last_poll>>
    /\ UNCHANGED <<clockVars, storeVars, ingestVars, backfillVars, analysisVars, cacheVars,
                   parseVars, backwaterVars, severityVars, reanalysisVars, toolVars>>

\* record_failure after a failed poll_station.
TaskRecordFailure ==
    /\ \E site_code \in DOMAIN poll_tasks :
         LET task == poll_tasks[site_code]
         IN  /\ task.pc = "failure"
             /\ monitoring_state' =
                   IF task.state_fails THEN monitoring_state
                   ELSE record_failure(monitoring_state, site_code, now)
             /\ poll_tasks' = [poll_tasks EXCEPT ![site_code].pc = "done"]
             /\ parallel' = Stepped(site_code)
    /\ UNCHANGED <<gauge_readings, daemon_run>>
    /\ UNCHANGED <<cwms_timeseries, asos_observations, cycle, attempted, results, last_poll>>
    /\ UNCHANGED <<clockVars, storeVars, ingestVars, backfillVars, analysisVars, cacheVars,
                   parseVars, backwaterVars, severityVars, reanalysisVars, toolVars>>

\* A row of monitoring_state left by an earlier failed poll.
FailedBefore ==
    [exists |-> TRUE, latest_reading_time |-> NULL, consecutive_failures |-> 1,
     last_poll_attempted |-> 0]

InitParallel ==
    /\ InitClock
    /\ gauge_readings \in
          {{}, {Row(PollReading(SiteKingston, PARAM_DISCHARGE, Rfc(now, 0)), now)}}
    /\ monitoring_state \in
          {[site_code \in ParallelSites |-> NoRow],
           [site_code \in ParallelSites |-> FailedBefore]}
    /\ cwms_timeseries = {}
    /\ asos_observations = {}
    /\ cycle = IdleCycle
    /\ attempted = {}
    /\ results = {}
    /\ last_poll = NoPoll
    /\ poll_tasks = [site_code \in ParallelSites |-> NewTask]
    /\ parallel = [table |-> gauge_readings, ms |-> monitoring_state,
                   interleaved |-> FALSE]
    /\ daemon_run = NotRunning
    /\ InitStoreVars
    /\ InitIngestVars
    /\ InitBackfillVars
    /\ InitAnalysisVars
    /\ InitCacheVars
    /\ InitParseVars
    /\ InitBackwaterVars
    /\ InitSeverityVars
    /\ InitReanalysisVars
    /\ InitToolVars

NextParallel == TaskFetch \/ TaskStore \/ TaskUpdateState \/ TaskRecordFailure

SpecParallel == InitParallel /\ [][NextParallel]_vars

BothDone == \A site_code \in ParallelSites : poll_tasks[site_code].pc = "done"

\* C28: when the polls of two stations have run side by side, statement by
\* statement in any order, the readings table and the monitoring state are
\* those of polling the first station and then the second, and those of
\* polling the second and then the first.
C28_ParallelAsSequential ==
    BothDone =>
        \A first \in ParallelSites : \A second \in ParallelSites \ {first} :
            [table |-> gauge_readings, ms |-> monitoring_state]
                = OneAfterTheOther(first, second)

\* Both polls stored readings and updated their row while the other one was
\* under way.
C28_Witness ==
    /\ BothDone
    /\ parallel.interleaved
    /\ \A site_code \in ParallelSites :
         /\ monitoring_state[site_code].latest_reading_time = now
         /\ \E row \in gauge_readings \ parallel.table : row.site_code = site_code


(***************************************************************************)
(* The daemon loop: Daemon::run                                            *)
(***************************************************************************)

\* A loop that gives up when poll_all_stations returns an error.
ReturnOnError(result) == IF result = "err" THEN "exited" ELSE "sleep"

\* The match on the result of poll_all_stations: the Ok arm and the Err arm
\* both print and fall through to the sleep.
AfterCycle(result) == "sleep"

\* A sleep computation without the test of the sign.
SleepUnclamped(sleep_seconds) == sleep_seconds

\* (poll_interval_minutes * 60) as i64 - elapsed. The intervals here are
\* minutes of a quarter of an hour or less, far inside the 64 bits.
SleepSeconds(poll_interval_minutes, elapsed) ==
    Minutes(poll_interval_minutes) - elapsed

\* The seconds the thread sleeps: sleep_seconds as u64 when it is above 0,
\* no sleep otherwise.
SleepFor(sleep_seconds) == IF sleep_seconds > 0 THEN sleep_seconds ELSE 0

\* The seconds between `start` and the end of poll_all_stations, by the wall
\* clock: none, just under, exactly and just over the interval, and a clock
\* that was set back during the cycle.
ElapsedSeconds(poll_interval_minutes) ==
    {-30, 0, Minutes(poll_interval_minutes) - 1, Minutes(poll_interval_minutes),
     Minutes(poll_interval_minutes) + 1}

\* The top of the loop: start = Utc::now(), poll_all_stations is called.
RunTop ==
    /\ daemon_run.pc = "top"
    /\ daemon_run' = [daemon_run EXCEPT !.pc = "poll", !.elapsed = NULL,
                                        !.sleep_seconds = NULL, !.slept = NULL]
    /\ cycle' = IdleCycle
    /\ UNCHANGED <<poll_tasks, parallel>>
    /\ UNCHANGED <<monitoring_state, cwms_timeseries, asos_observations, attempted,
                   results, last_poll>>
    /\ UNCHANGED <<dbVars, clockVars, storeVars, ingestVars, backfillVars, analysisVars,
                   cacheVars, parseVars, backwaterVars, severityVars, reanalysisVars, toolVars>>

\* poll_all_stations, from its first line to its return.
RunPoll ==
    /\ daemon_run.pc = "poll"
    /\ cycle.result = "none"
    /\ NextPoll

\* poll_all_stations has returned: the match, the elapsed time and the sleep.
RunSleep ==
    /\ daemon_run.pc = "poll"
    /\ cycle.i = 0
    /\ cycle.result # "none"
    /\ \E elapsed \in ElapsedSeconds(config.poll_interval_minutes) :
         LET sleep_seconds == SleepSeconds(config.poll_interval_minutes, elapsed)
         IN  daemon_run' =
               IF AfterCycle(cycle.result) = "sleep"
               THEN [pc |-> "top", elapsed |-> elapsed, sleep_seconds |-> sleep_seconds,
                     slept |-> SleepFor(sleep_seconds), last_result |-> cycle.result]
               ELSE [daemon_run EXCEPT !.pc = "exited", !.last_result = cycle.result]
    /\ UNCHANGED <<poll_tasks, parallel>>
    /\ UNCHANGED pollVars
    /\ UNCHANGED <<dbVars, clockVars, storeVars, ingestVars, backfillVars, analysisVars,
                   cacheVars, parseVars, backwaterVars, severityVars, reanalysisVars, toolVars>>

InitRun == InitPoll

NextRun == RunTop \/ RunPoll \/ RunSleep

SpecRun == InitRun /\ [][NextRun]_vars

\* The thread of the daemon keeps running: a statement that can be executed
\* is executed, every request has a timeout and every sleep ends.
SpecRunFair == SpecRun /\ WF_vars(NextRun)

\* C29: after a cycle has ended, with Ok or with an error, the next cycle is
\* eventually started.
C29_NextCycleStarts ==
    \A result \in {"ok", "err"} :
        (daemon_run.pc = "poll" /\ cycle.i = 0 /\ cycle.result = result)
            ~> (daemon_run.pc = "poll" /\ cycle.result = "none"
                    /\ daemon_run.last_result = result)

\* A cycle is under way after a cycle that ended with an error.
C29_Witness ==
    /\ daemon_run.pc = "poll"
    /\ cycle.i > 0
    /\ daemon_run.last_result = "err"

\* C30: the daemon sleeps for the poll interval less the elapsed time of the
\* cycle, and not at all when the cycle took the interval or longer: the
\* time slept is never below 0.
C30_SleepClampedToZero ==
    (daemon_run.pc = "top" /\ daemon_run.last_result # "none") =>
        LET interval == config.poll_interval_minutes * SecondsPerMinute
        IN  /\ daemon_run.slept >= 0
            /\ daemon_run.elapsed >= interval => daemon_run.slept = 0
            /\ daemon_run.elapsed < interval =>
                  daemon_run.slept = interval - daemon_run.elapsed

\* A cycle ran one second over the interval and the daemon went on without
\* sleeping.
C30_Witness ==
    /\ daemon_run.slept = 0
    /\ daemon_run.sleep_seconds = -1
    /\ daemon_run.pc = "top"


(***************************************************************************)
(* Station configuration: load_config                                      *)
(***************************************************************************)

\* The most [[station]] tables in a generated stations.toml.
MaxStations == 2

\* Stage values of a [station.thresholds] table, in tenths of a foot.
TomlStages == {140, 160, 200}

\* thresholds: Option<ThresholdConfig>; None when the table is missing.
NoThresholds ==
    [present |-> FALSE, action_stage_ft |-> 0, flood_stage_ft |-> 0,
     moderate_flood_stage_ft |-> 0, major_flood_stage_ft |-> 0]

ThresholdConfig(action, flood, moderate, major) ==
    [present |-> TRUE, action_stage_ft |-> action, flood_stage_ft |-> flood,
     moderate_flood_stage_ft |-> moderate, major_flood_stage_ft |-> major]

StationConfig(site_code, thresholds) ==
    [site_code |-> site_code, thresholds |-> thresholds]

\* The [station.thresholds] tables a file can hold: any four numbers.
TomlThresholds ==
    {NoThresholds} \cup
    {ThresholdConfig(a, f, mo, ma) :
        a \in TomlStages, f \in TomlStages, mo \in TomlStages, ma \in TomlStages}

TomlSites == <<SiteKingston, SitePeoria, SiteUnknown>>

\* The files load_config can find: missing, not valid TOML for the
\* StationRegistry, or a list of stations.
TomlFiles(max_stations) ==
    {NoToml, [NoToml EXCEPT !.readable = TRUE]} \cup
    UNION {{[readable |-> TRUE, syntax_ok |-> TRUE,
             station |-> [i \in 1..n |-> StationConfig(TomlSites[i], th[i])]] :
               th \in [1..n -> TomlThresholds]} : n \in 1..max_stations}

\* load_config: panics when the file cannot be read or parsed, and returns
\* registry.station as deserialized otherwise.
load_config(file) ==
    IF ~file.readable \/ ~file.syntax_ok
    THEN [called |-> TRUE, panicked |-> TRUE, station |-> <<>>]
    ELSE [called |-> TRUE, panicked |-> FALSE, station |-> file.station]

LoadConfig ==
    /\ ~station_configs.called
    /\ station_configs' = load_config(stations_toml)
    /\ UNCHANGED <<stations_toml, nws_flood_events, peak_ingest, cwms_backfill>>
    /\ UNCHANGED <<dbVars, clockVars, storeVars, ingestVars, pollVars, backfillVars,
                   analysisVars, cacheVars, parseVars, backwaterVars, severityVars,
                   reanalysisVars, daemonVars>>

InitConfig ==
    /\ gauge_readings = {}
    /\ InitClock
    /\ InitStoreVars
    /\ InitIngestVars
    /\ InitPollVars
    /\ InitBackfillVars
    /\ InitAnalysisVars
    /\ InitCacheVars
    /\ InitParseVars
    /\ InitBackwaterVars
    /\ InitSeverityVars
    /\ InitReanalysisVars
    /\ InitDaemonVars
    /\ stations_toml \in TomlFiles(MaxStations)
    /\ station_configs = NotLoaded
    /\ nws_flood_events = {}
    /\ peak_ingest = NoPeakIngest
    /\ cwms_backfill = NoCwmsBackfill

NextConfig == LoadConfig

SpecConfig == InitConfig /\ [][NextConfig]_vars

\* C31: in every StationConfig that load_config returned, the thresholds,
\* when present, are strictly ascending: action < flood < moderate < major.
C31_LoadedThresholdsAscending ==
    (station_configs.called /\ ~station_configs.panicked) =>
        \A i \in 1..Len(station_configs.station) :
            LET t == station_configs.station[i].thresholds
            IN  t.present =>
                  /\ t.action_stage_ft < t.flood_stage_ft
                  /\ t.flood_stage_ft < t.moderate_flood_stage_ft
                  /\ t.moderate_flood_stage_ft < t.major_flood_stage_ft

(***************************************************************************)
(* ingest_peak_flows: the annual peaks of the USGS Peak Streamflow         *)
(* database become rows of nws.flood_events.  Times are in hours, stages   *)
(* in tenths of a foot.                                                    *)
(***************************************************************************)

MaxPeakRecords == 2

MaxPeakRuns == 3

\* The time of day given to a peak without one: noon.
DefaultPeakHour == 12

PeakSource == "USGS Peak Streamflow Database"

\* The stations of stations.toml: two with thresholds, one without.
PeakStations ==
    {StationConfig(SiteKingston, ThresholdConfig(140, 160, 200, 240)),
     StationConfig(SitePeoria, ThresholdConfig(140, 160, 200, 240)),
     StationConfig(SiteUnknown, NoThresholds)}

\* PeakFlowRecord: an annual peak; a missing field is NULL.
PeakFlowRecord(peak_date, peak_time, gage_height_ft, alternate_gage_height_ft) ==
    [peak_date |-> peak_date, peak_time |-> peak_time,
     gage_height_ft |-> gage_height_ft,
     alternate_gage_height_ft |-> alternate_gage_height_ft]

PeakRecords ==
    {PeakFlowRecord(d, t, g, NULL) : d \in 1..2, t \in {NULL, DefaultPeakHour}, g \in {150, 180}}
    \cup {PeakFlowRecord(d, t, NULL, a) : d \in 1..2, t \in {NULL, DefaultPeakHour},
                                         a \in {NULL, 200}}

\* The record lists parse_rdb can return for a station.
RdbFiles(max_records) ==
    UNION {[1..n -> PeakRecords] : n \in 0..max_records}

FloodEvent(crest_time, peak_stage_ft, severity) ==
    [crest_time |-> crest_time, peak_stage_ft |-> peak_stage_ft, severity |-> severity]

RECURSIVE identify_flood_events(_, _, _)
identify_flood_events(records, thresholds, i) ==
    IF i > Len(records) THEN <<>>
    ELSE LET record == records[i]
             peak_stage_ft == IF record.gage_height_ft # NULL THEN record.gage_height_ft
                              ELSE record.alternate_gage_height_ft
             severity == from_stage(peak_stage_ft, thresholds.flood_stage_ft,
                                    thresholds.moderate_flood_stage_ft,
                                    thresholds.major_flood_stage_ft)
             peak_time == IF record.peak_time # NULL THEN record.peak_time
                          ELSE DefaultPeakHour
             rest == identify_flood_events(records, thresholds, i + 1)
         IN  IF peak_stage_ft = NULL \/ severity = "no_event" THEN rest
             ELSE <<FloodEvent(Days(record.peak_date) + peak_time, peak_stage_ft, severity)>>
                  \o rest

\* A duplicate check that finds nothing.
ExistsNever(rows, site_code, crest_time) == 0

\* SELECT COUNT(*) FROM nws.flood_events WHERE site_code = $1 AND crest_time = $2
ExistsCount(rows, site_code, crest_time) ==
    Cardinality({row \in rows : row.site_code = site_code /\ row.crest_time = crest_time})

\* A row of nws.flood_events; id is the serial key of the table.
FloodEventRow(id, site_code, event, data_source) ==
    [id |-> id, site_code |-> site_code, event_start |-> event.crest_time - Days(1),
     crest_time |-> event.crest_time, peak_stage_ft |-> event.peak_stage_ft,
     severity |-> event.severity, data_source |-> data_source]

\* The loop of insert_flood_events inside its transaction: the rows of the
\* table as the transaction sees them after the events from the i-th on.
RECURSIVE insert_flood_events(_, _, _, _)
insert_flood_events(rows, events, site_code, i) ==
    IF i > Len(events) THEN rows
    ELSE IF ExistsCount(rows, site_code, events[i].crest_time) > 0
    THEN insert_flood_events(rows, events, site_code, i + 1)
    ELSE insert_flood_events(
             rows \cup {FloodEventRow(Cardinality(rows) + 1, site_code, events[i], PeakSource)},
             events, site_code, i + 1)

\* process_station for one station of main's loop.  The request can fail,
\* and a statement or the commit of the transaction can fail, which rolls
\* back every insert of the call.
ProcessStation ==
    \E station \in PeakStations, outcome \in {"ok", "fetch_error", "store_error"} :
        LET events == identify_flood_events(peak_ingest.rdb, station.thresholds, 1)
            reaches_store == station.thresholds.present /\ outcome # "fetch_error"
                             /\ events # <<>>
            commits == reaches_store /\ outcome = "ok"
            rows == IF commits
                    THEN insert_flood_events(nws_flood_events, events, station.site_code, 1)
                    ELSE nws_flood_events
            ok == /\ station.thresholds.present
                  /\ outcome # "fetch_error"
                  /\ (outcome = "ok" \/ events = <<>>)
        IN  /\ peak_ingest.runs < MaxPeakRuns
            /\ nws_flood_events' = rows
            /\ peak_ingest' =
                   [peak_ingest EXCEPT
                       !.runs = @ + 1,
                       !.site_code = station.site_code,
                       !.ok = ok,
                       !.inserted = Cardinality(rows) - Cardinality(nws_flood_events),
                       !.events = IF station.thresholds.present THEN events ELSE <<>>,
                       !.rows_before = nws_flood_events,
                       !.committed_before = peak_ingest.committed,
                       !.committed = IF commits THEN @ \cup {station.site_code} ELSE @]
            /\ UNCHANGED <<stations_toml, station_configs, cwms_backfill>>
            /\ UNCHANGED <<dbVars, clockVars, storeVars, ingestVars, pollVars, backfillVars,
                           analysisVars, cacheVars, parseVars, backwaterVars, severityVars,
                           reanalysisVars, daemonVars>>

\* A row entered by hand for the crest of the first day at noon.
CuratedRow ==
    FloodEventRow(1, SiteKingston, FloodEvent(Days(1) + DefaultPeakHour, 190, "flood"),
                  "manual")

InitPeak ==
    /\ gauge_readings = {}
    /\ InitClock
    /\ InitStoreVars /\ InitIngestVars /\ InitPollVars
    /\ InitBackfillVars /\ InitAnalysisVars /\ InitCacheVars /\ InitParseVars
    /\ InitBackwaterVars /\ InitSeverityVars /\ InitReanalysisVars /\ InitDaemonVars
    /\ stations_toml = NoToml
    /\ station_configs = NotLoaded
    /\ cwms_backfill = NoCwmsBackfill
    /\ nws_flood_events \in {{}, {CuratedRow}}
    /\ peak_ingest \in {[NoPeakIngest EXCEPT !.rdb = rdb] : rdb \in RdbFiles(MaxPeakRecords)}

NextPeak == ProcessStation

SpecPeak == InitPeak /\ [][NextPeak]_vars

IngestedRows == {row \in nws_flood_events : row.data_source = PeakSource}

\* C33: nws.flood_events holds at most one ingested row for a station and
\* crest time, and a run over the records of a station whose events were
\* already committed inserts nothing and leaves the table as it was.
C33_RerunInsertsNothing ==
    /\ \A r1, r2 \in IngestedRows :
           (r1.site_code = r2.site_code /\ r1.crest_time = r2.crest_time) => r1 = r2
    /\ (peak_ingest.runs > 0 /\ peak_ingest.site_code \in peak_ingest.committed_before)
           => (peak_ingest.inserted = 0 /\ nws_flood_events = peak_ingest.rows_before)

\* A second committed run over two records of the same crest time, with the
\* one row of the first run in the table.
C33_Witness ==
    /\ peak_ingest.runs > 1
    /\ peak_ingest.ok
    /\ peak_ingest.site_code \in peak_ingest.committed_before
    /\ Len(peak_ingest.events) = 2
    /\ peak_ingest.events[1].crest_time = peak_ingest.events[2].crest_time
    /\ \E row \in IngestedRows : row.site_code = peak_ingest.site_code

(***************************************************************************)
(* Daemon::backfill_cwms_location: the historical data of the timeseries   *)
(* discovered for a CWMS location.  Times are in hours.                    *)
(***************************************************************************)

\* The days of history requested for a location without data.
CwmsBackfillDays == 120

\* A CWMS timeseries id "{location}.{parameter}.{type}.{interval}...": its
\* first two parts.
TimeseriesId(location_id, parameter_id) ==
    [location_id |-> location_id, parameter_id |-> parameter_id]

\* UsaceLocation with its discovered timeseries in the order pool elevation,
\* tailwater elevation, stage; an undiscovered one is left out.
UsaceLocation(name, cwms_location, discovered) ==
    [name |-> name, cwms_location |-> cwms_location, discovered |-> discovered]

\* A lock with pool and tailwater, a pool with elevation and stage, a river
\* gauge with its stage, and a location for which nothing was discovered.
BackfillLocations ==
    {UsaceLocation("Peoria Lock and Dam", "Peoria-Pool",
                   <<TimeseriesId("Peoria-Pool", "Elev"), TimeseriesId("Peoria-TW", "Elev")>>),
     UsaceLocation("LaGrange Lock and Dam", "LaGrange-Pool",
                   <<TimeseriesId("LaGrange-Pool", "Elev"),
                     TimeseriesId("LaGrange-Pool", "Stage")>>),
     UsaceLocation("Grafton", "Grafton-Mississippi",
                   <<TimeseriesId("Grafton-Mississippi", "Stage")>>),
     UsaceLocation("Alton", "Mel Price-Pool", <<>>)}

\* The age of the newest record a request for history returns.
CwmsDataLags == {1, Days(3)}

\* How a request and the insert of its records can end.
CwmsOutcomes == {"ok", "fetch_err", "store_err"}

\* SELECT MAX(timestamp) FROM usace.cwms_timeseries WHERE location_id = $1:
\* NULL for None, else the age of the newest row.
check_cwms_staleness(table, location_id, at) ==
    LET rows == {r \in table : r.location_id = location_id}
    IN  IF rows = {} THEN NULL
        ELSE at - (CHOOSE t \in {r.timestamp : r \in rows} :
                      \A r \in rows : r.timestamp <= t)

CwmsRequest(ts_id, start, end) == [ts_id |-> ts_id, start |-> start, end |-> end]

\* The loop of backfill_cwms_location from the k-th discovered timeseries
\* on: the table, the requests made and whether the call returned Ok.
RECURSIVE backfill_cwms_location(_, _, _, _, _, _, _)
backfill_cwms_location(table, location, k, outcomes, lag, at, requests) ==
    IF k > Len(location.discovered)
    THEN [ok |-> TRUE, table |-> table, requests |-> requests]
    ELSE LET ts_id == location.discovered[k]
             staleness == check_cwms_staleness(table, location.cwms_location, at)
             start == IF staleness = NULL THEN at - Days(CwmsBackfillDays)
                      ELSE at - staleness
             asked == staleness = NULL \/ num_days(staleness) > 1
             made == IF asked THEN Append(requests, CwmsRequest(ts_id, start, at))
                     ELSE requests
             stored == warehouse_cwms_timeseries(table, ts_id.location_id,
                                                 ts_id.parameter_id, at - lag)
         IN  IF ~asked \/ outcomes[k] = "fetch_err"
             THEN backfill_cwms_location(table, location, k + 1, outcomes, lag,
                                         at, made)
             ELSE IF outcomes[k] = "store_err"
             THEN [ok |-> FALSE, table |-> table, requests |-> made]
             ELSE backfill_cwms_location(stored, location, k + 1, outcomes, lag,
                                         at, made)

\* Daemon::backfill_cwms_location for one location.
BackfillCwmsLocation ==
    \E location \in BackfillLocations, lag \in CwmsDataLags :
      \E outcomes \in [1..Len(location.discovered) -> CwmsOutcomes] :
        LET done == backfill_cwms_location(cwms_timeseries, location, 1,
                                           outcomes, lag, now, <<>>)
        IN  /\ cwms_timeseries' = done.table
            /\ cwms_backfill' =
                   [called |-> TRUE, ok |-> done.ok, location |-> location.cwms_location,
                    timeseries |-> location.discovered,
                    empty_before |->
                        check_cwms_staleness(cwms_timeseries, location.cwms_location, now)
                            = NULL,
                    requests |-> done.requests, at |-> now]
            /\ UNCHANGED <<monitoring_state, asos_observations, cycle, attempted, results,
                           last_poll>>
            /\ UNCHANGED <<stations_toml, station_configs, nws_flood_events, peak_ingest>>
            /\ UNCHANGED <<dbVars, clockVars, storeVars, ingestVars, backfillVars,
                           analysisVars, cacheVars, parseVars, backwaterVars, severityVars,
                           reanalysisVars, daemonVars>>

InitCwmsBackfill ==
    /\ gauge_readings = {}
    /\ InitClock
    /\ InitStoreVars /\ InitIngestVars /\ InitPollVars
    /\ InitBackfillVars /\ InitAnalysisVars /\ InitCacheVars /\ InitParseVars
    /\ InitBackwaterVars /\ InitSeverityVars /\ InitReanalysisVars /\ InitDaemonVars
    /\ InitToolVars

NextCwmsBackfill == BackfillCwmsLocation

SpecCwmsBackfill == InitCwmsBackfill /\ [][NextCwmsBackfill]_vars

\* The whole window was requested for a timeseries in the last call.
WholeWindowRequested(ts_id) ==
    \E i \in 1..Len(cwms_backfill.requests) :
        cwms_backfill.requests[i] =
            CwmsRequest(ts_id, cwms_backfill.at - Days(CwmsBackfillDays), cwms_backfill.at)

\* C38: after a call of backfill_cwms_location that returned Ok for a
\* location without a stored row, the window of the last 120 days was
\* requested for every discovered timeseries of the location.
C38_EveryTimeseriesRequested ==
    (cwms_backfill.called /\ cwms_backfill.ok /\ cwms_backfill.empty_before) =>
        \A k \in 1..Len(cwms_backfill.timeseries) :
            WholeWindowRequested(cwms_backfill.timeseries[k])

=============================================================================
